---------------------------- MODULE Spec2Model ----------------------------
(***************************************************************************)
(* ILI9481 userspace driver: the MMIO GPIO bus engine (src/src/bus), the   *)
(* 8080 command/data/pixel protocol layer and the panel controller driver  *)
(* (src/src/display/ili9481.c).                                            *)
(*                                                                         *)
(* A 32-bit GPIO mask is modelled as the set of its bit positions: the     *)
(* mask (1u << p) is {p}, "|" is \cup and "& ~" is set difference.         *)
(* MaskValue gives the number a mask stands for.  The program runs one     *)
(* register store, barrier or sleep per step; a frame's pc is the source   *)
(* line of the statement it executes next.                                 *)
(***************************************************************************)
EXTENDS Integers, Sequences, FiniteSets, TLC

\* The field names of the records of this module.  Every record below is
\* written with its fields in this order.
FieldOrder ==
    [alive |-> {}, argv |-> {}, at |-> {}, ax |-> {}, ay |-> {}, batch |-> {},
     benchmark |-> {}, bits_per_pixel |-> {}, blue_length |-> {},
     blue_offset |-> {}, bo |-> {}, buf |-> {}, bus |-> {}, bx |-> {},
     by |-> {}, c |-> {}, cal |-> {}, call |-> {}, cfg |-> {}, clr |-> {},
     cmd |-> {}, color |-> {}, config_path |-> {}, count |-> {},
     cpuinfo |-> {}, cx |-> {}, cy |-> {}, data |-> {}, dc |-> {},
     delay_ms |-> {}, disp_h |-> {}, disp_w |-> {}, down |-> {}, dr |-> {},
     dx |-> {}, dy |-> {}, e |-> {}, enable_touch |-> {}, exited |-> {},
     f |-> {}, fb |-> {}, fd |-> {}, file |-> {}, fill |-> {}, filt_x |-> {},
     filt_y |-> {}, fn |-> {}, found_revision |-> {}, fp |-> {}, fps |-> {},
     fps_start |-> {}, frame_count |-> {}, frame_ns |-> {}, fsel |-> {},
     go |-> {}, gpio_probe |-> {}, green_length |-> {}, green_offset |-> {},
     h |-> {}, handlers |-> {}, heap |-> {}, height |-> {}, hi |-> {},
     i |-> {}, io |-> {}, is_pi5 |-> {}, j |-> {}, k |-> {}, key |-> {},
     last_raw_x |-> {}, last_raw_y |-> {}, last_x |-> {}, last_y |-> {},
     len |-> {}, lo |-> {}, log0 |-> {}, map |-> {}, mask |-> {},
     max_x |-> {}, max_y |-> {}, n |-> {}, next_tick |-> {}, npixels |-> {},
     npx |-> {}, ok |-> {}, opt |-> {}, p |-> {}, par |-> {}, pc |-> {},
     pen_down_count |-> {}, pixel |-> {}, pixels |-> {}, pressure |-> {},
     pressure2 |-> {}, px |-> {}, ramp |-> {}, raw_x |-> {}, raw_y |-> {},
     red_length |-> {}, red_offset |-> {}, reg |-> {}, rem |-> {}, ret |-> {},
     ro |-> {}, rotate |-> {}, rotation |-> {}, row |-> {}, rst0 |-> {},
     rst_gpio |-> {}, sample_count |-> {}, samples_x |-> {}, samples_y |-> {},
     scale_buf |-> {}, set |-> {}, src_bpp |-> {}, src_height |-> {},
     src_stride |-> {}, src_width |-> {}, sx |-> {}, sy |-> {},
     test_pattern |-> {}, tft_height |-> {}, tft_width |-> {},
     touch_tid |-> {}, ts |-> {}, ts0 |-> {}, tv_nsec |-> {}, tv_sec |-> {},
     type |-> {}, ut |-> {}, ut0 |-> {}, v |-> {}, val |-> {}, vmem |-> {},
     w |-> {}, was_down |-> {}, width |-> {}, x |-> {}, x0 |-> {}, x1 |-> {},
     y |-> {}, y0 |-> {}, y1 |-> {}, z1 |-> {}, z2 |-> {}]

VARIABLES
    lev,        \* GPIO output levels: the set of pins driven high (GPLEV0)
    stack,      \* call stack, innermost frame first; <<>> when no call runs
    cur,        \* the outermost call, running or returned: [call |-> its frame at
                \* entry, rst0 |-> the level of RST at entry]
    sinceDmb,   \* the set of register stores issued since the last memory barrier
    log,        \* what the panel has seen since the outermost call began, as runs
    handle,     \* what the struct gpio_bus holds: [fd |-> /dev/gpiomem is open,
                \* fsel |-> GPFSEL0..2, heap |-> the struct is allocated,
                \* map |-> the registers are mapped]
    g_running,  \* the run flag of service_main.c
    now,        \* CLOCK_MONOTONIC as fb_flush_loop sees it
    touch,      \* the call stack of the thread that uses the touch devices,
                \* innermost frame first; <<>> when there is no such thread
    dev         \* the touch devices: [io |-> the reads made and the input events
                \* and ioctls sent so far, as runs, ts |-> the struct xpt2046,
                \* ut |-> the struct uinput_touch]

\* the process around the bus: nothing in src/bus or src/display/ili9481.c
\* reads or writes it
daemon == <<handle, g_running, now, touch, dev>>

vars == <<lev, stack, cur, sinceDmb, log, handle, g_running, now, touch, dev>>

\* no touch thread has been created
NoThread == <<>>

Epoch == [tv_nsec |-> 0, tv_sec |-> 0]

\* the devices as xpt2046_open (calloc, line 146) and uinput_touch_create(480,
\* 320) (lines 149..153) leave them; fd is the SPI device being open; the
\* uinput device is alive from its creation until it is destroyed
Devices ==
    [io |-> <<>>,
     ts |-> [fd |-> TRUE, filt_x |-> 0, filt_y |-> 0, last_raw_x |-> 0,
             last_raw_y |-> 0, pen_down_count |-> 0, sample_count |-> 0],
     ut |-> [alive |-> TRUE, last_x |-> 0, last_y |-> 0, max_x |-> 480,
             max_y |-> 320, was_down |-> 0]]

\* no device has been opened or created
NoDevices ==
    [io |-> <<>>,
     ts |-> [fd |-> FALSE, filt_x |-> 0, filt_y |-> 0, last_raw_x |-> 0,
             last_raw_y |-> 0, pen_down_count |-> 0, sample_count |-> 0],
     ut |-> [alive |-> FALSE, last_x |-> 0, last_y |-> 0, max_x |-> 0,
             max_y |-> 0, was_down |-> 0]]

-----------------------------------------------------------------------------
(* Bounds of the model *)

\* largest pixel count streamed by a direct gpio_write_pixels call
MaxPixels == 2
\* largest width and height of the frames whose every buffer is tried
MaxSide == 2
\* frames after which fb_flush_loop is not followed further
MaxFrames == 3
\* largest width and height of the source and of the destination of scale_frame
MaxScale == 3
\* largest number of command-line options of a start of the daemon
MaxArgs == 2
\* runs of input events in the log after which no further report is made
MaxEmitted == 12
\* calls of xpt2046_read after which the touch controller is not polled again
MaxReads == 11
\* iterations of the touch thread's loop that are followed beside the main
\* thread
MaxPolls == 1
\* pixels at each end of a frame of main that are followed store by store
MaxFollowed == 1
\* frames of the flush loop that are followed when main runs it
MaxMainFrames == 1

-----------------------------------------------------------------------------
(* include/ili9481_hw.h *)

ILI9481_SWRESET  == 1
ILI9481_SLPIN    == 16
ILI9481_SLPOUT   == 17
ILI9481_DISPOFF  == 40
ILI9481_DISPON   == 41
ILI9481_CASET    == 42
ILI9481_PASET    == 43
ILI9481_RAMWR    == 44
ILI9481_MADCTL   == 54
ILI9481_COLMOD   == 58
ILI9481_PWRSET   == 208
ILI9481_VMCTR    == 209
ILI9481_PWRNORM  == 210
ILI9481_PANELDRV == 192
ILI9481_FRMCTR   == 197
ILI9481_GAMMASET == 200

ILI9481_COLMOD_12BIT == 3
ILI9481_COLMOD_16BIT == 85

ILI9481_MADCTL_0   == 10
ILI9481_MADCTL_90  == 232
ILI9481_MADCTL_180 == 202
ILI9481_MADCTL_270 == 40

ILI9481_WIDTH  == 320
ILI9481_HEIGHT == 480

GPFSEL0 == 0

GPIO_RST == 25
GPIO_CS  == 8
GPIO_DC  == 24
GPIO_WR  == 23
GPIO_RD  == 18

GPIO_DB0 == 9
GPIO_DB1 == 11
GPIO_DB2 == 10
GPIO_DB3 == 22
GPIO_DB4 == 27
GPIO_DB5 == 17
GPIO_DB6 == 4
GPIO_DB7 == 3

\* DATA_BUS_LO_PINS, in bit order DB0..DB7 (1-based here: DATA_BUS_LO_PINS[bit + 1])
DATA_BUS_LO_PINS ==
    <<GPIO_DB0, GPIO_DB1, GPIO_DB2, GPIO_DB3, GPIO_DB4, GPIO_DB5, GPIO_DB6, GPIO_DB7>>

-----------------------------------------------------------------------------
(* Arithmetic helpers *)

Pow2(n) == 2 ^ n

\* bit `bit` of the non-negative integer val: (val >> bit) & 1
BitOf(val, bit) == (val \div Pow2(bit)) % 2

\* the number a mask stands for
RECURSIVE MaskValue(_)
MaskValue(mask) ==
    IF mask = {} THEN 0
    ELSE LET p == CHOOSE x \in mask : TRUE
         IN  Pow2(p) + MaskValue(mask \ {p})

-----------------------------------------------------------------------------
(* src/bus/gpio_mmio.c: static data and masks *)

\* db_pins with DB7 on the pin of WR
db_pins_on_wr == [DATA_BUS_LO_PINS EXCEPT ![8] = GPIO_WR]

db_pins == DATA_BUS_LO_PINS

\* the thirteen pins of the bus
BusPins ==
    {GPIO_RST, GPIO_CS, GPIO_DC, GPIO_WR, GPIO_RD}
        \cup {DATA_BUS_LO_PINS[n] : n \in 1..8}

\* GPFSEL0..GPFSEL2 as the tuple of their values; each pin has a 3-bit
\* function field, ten pins to a register
FselField(regs, pin) ==
    (regs[GPFSEL0 + (pin \div 10) + 1] \div Pow2((pin % 10) * 3)) % 8

\* gpio_set_output that stores the new field without reading the register
gpio_set_output_overwrite(regs, pin) ==
    [regs EXCEPT ![GPFSEL0 + (pin \div 10) + 1] = Pow2((pin % 10) * 3)]

\* Lines 122..130: read the register, clear the pin's field, set it to 001,
\* write the register back.
gpio_set_output(regs, pin) ==
    LET reg   == pin \div 10
        shift == (pin % 10) * 3
        val   == regs[GPFSEL0 + reg + 1]
        clear == val - ((val \div Pow2(shift)) % 8) * Pow2(shift)
    IN  [regs EXCEPT ![GPFSEL0 + reg + 1] = clear + Pow2(shift)]

\* the function select registers with the pins of `pins` on function fn and
\* every other pin an input
RECURSIVE FselWith(_, _)
FselWith(pins, fn) ==
    IF pins = {} THEN <<0, 0, 0>>
    ELSE LET p    == CHOOSE q \in pins : TRUE
             rest == FselWith(pins \ {p}, fn)
         IN  [rest EXCEPT ![GPFSEL0 + (p \div 10) + 1] =
                              @ + fn * Pow2((p % 10) * 3)]

\* what the firmware leaves in GPFSEL0..2: every pin an input, or I2C1 (pins
\* 2, 3), SPI0 (7..11) and UART0 (14, 15) on their alternate function 0 (100)
ResetFsel == FselWith({}, 0)
BootFsel  == FselWith({2, 3, 7, 8, 9, 10, 11, 14, 15}, 4)
BootFsels == {ResetFsel, BootFsel}

RECURSIVE SetOutputs(_, _, _)
SetOutputs(regs, pins, n) ==
    IF n > Len(pins) THEN regs
    ELSE SetOutputs(gpio_set_output(regs, pins[n]), pins, n + 1)

\* the handle before gpio_bus_open and after a successful one: the five control
\* pins and the eight data pins are outputs
Closed == [fd |-> FALSE, fsel |-> BootFsel, heap |-> FALSE, map |-> FALSE]
Opened ==
    [fd |-> TRUE,
     fsel |-> SetOutputs(BootFsel,
                         <<GPIO_RST, GPIO_CS, GPIO_DC, GPIO_WR, GPIO_RD>>
                             \o db_pins, 1),
     heap |-> TRUE, map |-> TRUE]

\* before gpio_bus_open the pins have the levels left from before, here all
\* low or all high
BootLevels == {{}, BusPins}

wr_mask  == {GPIO_WR}
dc_mask  == {GPIO_DC}
rst_mask == {GPIO_RST}
cs_mask  == {GPIO_CS}
rd_mask  == {GPIO_RD}

\* the eight pins wired to the panel's DB0..DB7
DataPinMask ==
    {GPIO_DB0, GPIO_DB1, GPIO_DB2, GPIO_DB3, GPIO_DB4, GPIO_DB5, GPIO_DB6, GPIO_DB7}

\* One iteration of the outer loop of gpio_build_luts: the inner loop over the
\* eight bits, accumulating the pins to set and the pins to clear.
RECURSIVE LutLoop(_, _, _, _)
LutLoop(val, bit, set, clr) ==
    IF bit >= 8 THEN [clr |-> clr, set |-> set]
    ELSE IF BitOf(val, bit) # 0
         THEN LutLoop(val, bit + 1, set \cup {db_pins[bit + 1]}, clr)
         ELSE LutLoop(val, bit + 1, set, clr \cup {db_pins[bit + 1]})

\* gpio_build_luts with a clear mask that names every data pin
gpio_build_luts_clr_all ==
    [val \in 0..255 |-> [clr |-> DataPinMask, set |-> LutLoop(val, 0, {}, {}).set]]

\* gpio_build_luts whose inner loop starts at bit 1: DB0 is in neither mask
gpio_build_luts_skip_bit0 == [val \in 0..255 |-> LutLoop(val, 1, {}, {})]

gpio_build_luts == [val \in 0..255 |-> LutLoop(val, 0, {}, {})]

lut_set(val) == gpio_build_luts[val].set
lut_clr(val) == gpio_build_luts[val].clr

-----------------------------------------------------------------------------
(* The GPIO block and the panel's view of its pins *)

\* a store of `mask` to GPSET0 drives those pins high, to GPCLR0 low
ApplyStore(levels, reg, mask) ==
    IF reg = "GPSET0" THEN levels \cup mask ELSE levels \ mask

Level(levels, pin) == IF pin \in levels THEN 1 ELSE 0

\* the byte the panel reads on DB0..DB7: bit i is the level of the pin wired
\* to DBi
RECURSIVE DecodeFrom(_, _)
DecodeFrom(levels, bit) ==
    IF bit >= 8 THEN 0
    ELSE Level(levels, DATA_BUS_LO_PINS[bit + 1]) * Pow2(bit)
             + DecodeFrom(levels, bit + 1)

DecodeBus(levels) == DecodeFrom(levels, 0)

\* What the panel sees when the levels change from old to new: edges of RST,
\* CS and DC, and, on a rising edge of WR with CS low, the latch of the bus
\* value together with the DC level (0 command, 1 data) present at the edge.
Edge(old, new, pin, name) ==
    IF Level(old, pin) # Level(new, pin)
    THEN <<[k |-> name, v |-> Level(new, pin)]>>
    ELSE <<>>

Latch(old, new) ==
    IF GPIO_WR \notin old /\ GPIO_WR \in new /\ GPIO_CS \notin old
    THEN <<[dc |-> Level(old, GPIO_DC), k |-> "wr", v |-> DecodeBus(old)]>>
    ELSE <<>>

PanelSees(old, new) ==
    Edge(old, new, GPIO_RST, "rst") \o Edge(old, new, GPIO_CS, "cs")
        \o Edge(old, new, GPIO_DC, "dc") \o Latch(old, new)

\* The log keeps the events in order, equal consecutive events as one run
\* [e |-> event, n |-> number of repetitions].
RecordOne(runs, e) ==
    IF runs # <<>> /\ runs[Len(runs)].e = e
    THEN [runs EXCEPT ![Len(runs)].n = @ + 1]
    ELSE Append(runs, [e |-> e, n |-> 1])

RECURSIVE Record(_, _)
Record(runs, events) ==
    IF events = <<>> THEN runs
    ELSE Record(RecordOne(runs, Head(events)), Tail(events))

\* two logs one after the other
JoinRuns(a, b) ==
    IF a # <<>> /\ b # <<>> /\ a[Len(a)].e = b[1].e
    THEN [a EXCEPT ![Len(a)].n = @ + b[1].n] \o Tail(b)
    ELSE a \o b

\* the runs of events[lo..hi], by halves
RECURSIVE RunsOf(_, _, _)
RunsOf(events, lo, hi) ==
    IF lo > hi THEN <<>>
    ELSE IF lo = hi THEN <<[e |-> events[lo], n |-> 1]>>
    ELSE LET mid == (lo + hi) \div 2
         IN  JoinRuns(RunsOf(events, lo, mid), RunsOf(events, mid + 1, hi))

\* the runs of a sequence of events
Runs(events) == RunsOf(events, 1, Len(events))

-----------------------------------------------------------------------------
(* Execution of one statement *)

Top == Head(stack)

Goto(pc) == <<[Top EXCEPT !.pc = pc]>> \o Tail(stack)
Return   == Tail(stack)
\* call `frame`; the caller resumes at retpc
Call(frame, retpc) == <<frame>> \o Goto(retpc)
\* call `frame` as the caller's last statement
TailCall(frame) == <<frame>> \o Tail(stack)

\* bus->regs[reg] = mask
Store(reg, mask, next) ==
    /\ lev' = ApplyStore(lev, reg, mask)
    /\ sinceDmb' = sinceDmb \cup {[mask |-> mask, reg |-> reg]}
    /\ log' = Record(log, PanelSees(lev, ApplyStore(lev, reg, mask)))
    /\ stack' = next
    /\ UNCHANGED <<cur, daemon>>

\* dmb()
Dmb(next) ==
    /\ sinceDmb' = {}
    /\ stack' = next
    /\ UNCHANGED <<lev, cur, log, daemon>>

\* main has run install_signal_handlers (service_main.c:282): from then on a
\* SIGTERM or SIGINT runs signal_handler in this process
SignalsHandled ==
    \E n \in 1..Len(stack) : stack[n].fn = "main" /\ stack[n].handlers

\* usleep(us): the thread waits us microseconds or longer, unless a signal is
\* handled meanwhile: the handlers are installed without SA_RESTART, so
\* signal_handler runs and usleep returns at once with EINTR, which no caller
\* looks at.  The log keeps the time the wait is sure to have lasted.
Usleep(us, next) ==
    /\ stack' = next
    /\ \/ /\ log' = Record(log, <<[k |-> "sleep", v |-> us]>>)
          /\ UNCHANGED <<lev, cur, sinceDmb, daemon>>
       \/ /\ SignalsHandled
          /\ log' = Record(log, <<[k |-> "sleep", v |-> 0]>>)
          /\ g_running' = 0
          /\ UNCHANGED <<lev, cur, sinceDmb, handle, now, touch, dev>>

\* a statement without effect on the bus (loop test, call, return)
Skip(next) ==
    /\ stack' = next
    /\ UNCHANGED <<lev, cur, sinceDmb, log, daemon>>

Running(fn) == stack # <<>> /\ Top.fn = fn

-----------------------------------------------------------------------------
(* src/bus/gpio_mmio.c *)

F_bus_write8(val) == [fn |-> "bus_write8", pc |-> 169, val |-> val]

\* bus_write8 that asserts WR before the data-pin clear store
bus_write8_wr_early ==
    /\ Running("bus_write8")
    /\ CASE Top.pc = 169 -> Store("GPSET0", lut_set(Top.val), Goto(170))
         [] Top.pc = 170 -> Store("GPCLR0", wr_mask, Goto(171))
         [] Top.pc = 171 -> Store("GPCLR0", lut_clr(Top.val), Goto(172))
         [] Top.pc = 172 -> Dmb(Goto(173))
         [] Top.pc = 173 -> Store("GPSET0", wr_mask, Return)

bus_write8 ==
    /\ Running("bus_write8")
    /\ CASE Top.pc = 169 -> Store("GPSET0", lut_set(Top.val), Goto(170))
         [] Top.pc = 170 -> Store("GPCLR0", lut_clr(Top.val), Goto(171))
         [] Top.pc = 171 -> Store("GPCLR0", wr_mask, Goto(172))
         [] Top.pc = 172 -> Dmb(Goto(173))
         [] Top.pc = 173 -> Store("GPSET0", wr_mask, Return)

F_gpio_hw_reset(bus) == [bus |-> bus, fn |-> "gpio_hw_reset", pc |-> 260]

\* gpio_hw_reset that waits only 20 ms after releasing RST
gpio_hw_reset_short_wait ==
    /\ Running("gpio_hw_reset")
    /\ CASE Top.pc = 260 -> IF Top.bus = "NULL" THEN Skip(Return) ELSE Skip(Goto(264))
         [] Top.pc = 264 -> Store("GPCLR0", rst_mask, Goto(265))
         [] Top.pc = 265 -> Usleep(20000, Goto(268))
         [] Top.pc = 268 -> Store("GPSET0", rst_mask, Goto(269))
         [] Top.pc = 269 -> Usleep(20000, Return)

gpio_hw_reset ==
    /\ Running("gpio_hw_reset")
    /\ CASE Top.pc = 260 -> IF Top.bus = "NULL" THEN Skip(Return) ELSE Skip(Goto(264))
         [] Top.pc = 264 -> Store("GPCLR0", rst_mask, Goto(265))
         [] Top.pc = 265 -> Usleep(20000, Goto(268))
         [] Top.pc = 268 -> Store("GPSET0", rst_mask, Goto(269))
         [] Top.pc = 269 -> Usleep(120000, Return)

F_gpio_write_cmd(cmd) == [cmd |-> cmd, fn |-> "gpio_write_cmd", pc |-> 275]

\* gpio_write_cmd that restores DC before the byte is written
gpio_write_cmd_dc_early ==
    /\ Running("gpio_write_cmd")
    /\ CASE Top.pc = 275 -> Store("GPCLR0", dc_mask, Goto(276))
         [] Top.pc = 276 -> Dmb(Goto(281))
         [] Top.pc = 281 -> Store("GPSET0", dc_mask, Goto(278))
         [] Top.pc = 278 -> Skip(Call(F_bus_write8(Top.cmd), 282))
         [] Top.pc = 282 -> Dmb(Return)

\* gpio_write_cmd that returns without raising DC
gpio_write_cmd_dc_left_low ==
    /\ Running("gpio_write_cmd")
    /\ CASE Top.pc = 275 -> Store("GPCLR0", dc_mask, Goto(276))
         [] Top.pc = 276 -> Dmb(Goto(278))
         [] Top.pc = 278 -> Skip(Call(F_bus_write8(Top.cmd), 282))
         [] Top.pc = 282 -> Dmb(Return)

gpio_write_cmd ==
    /\ Running("gpio_write_cmd")
    /\ CASE Top.pc = 275 -> Store("GPCLR0", dc_mask, Goto(276))
         [] Top.pc = 276 -> Dmb(Goto(278))
         [] Top.pc = 278 -> Skip(Call(F_bus_write8(Top.cmd), 281))
         [] Top.pc = 281 -> Store("GPSET0", dc_mask, Goto(282))
         [] Top.pc = 282 -> Dmb(Return)

F_gpio_write_data(data) == [data |-> data, fn |-> "gpio_write_data", pc |-> 288]

\* gpio_write_data that selects command mode for its byte
gpio_write_data_as_cmd ==
    /\ Running("gpio_write_data")
    /\ Top.pc = 288
    /\ Skip(TailCall(F_gpio_write_cmd(Top.data)))

gpio_write_data ==
    /\ Running("gpio_write_data")
    /\ Top.pc = 288
    /\ Skip(TailCall(F_bus_write8(Top.data)))

\* A pixel buffer is [fill |-> FALSE, v |-> the sequence of its 16-bit values]
\* or, when every pixel has one colour, [fill |-> TRUE, v |-> <<the colour>>].
Buf(seq)       == [fill |-> FALSE, v |-> seq]
Filled(colour) == [fill |-> TRUE, v |-> <<colour>>]

\* pixels[i]
PixelAt(pixels, i) ==
    IF pixels.fill THEN pixels.v[1]
    ELSE IF "ramp" \in DOMAIN pixels THEN i % 65536
    ELSE pixels.v[i + 1]

F_gpio_write_pixels(pixels, count) ==
    [count |-> count, fn |-> "gpio_write_pixels", i |-> 0, pc |-> 299, pixels |-> pixels]

\* gpio_write_pixels that sends the low byte first
gpio_write_pixels_low_first ==
    /\ Running("gpio_write_pixels")
    /\ LET px == PixelAt(Top.pixels, Top.i)
       IN  CASE Top.pc = 299 ->
                    IF Top.i < Top.count THEN Skip(Goto(301)) ELSE Skip(Return)
             [] Top.pc = 301 -> Skip(Call(F_bus_write8(px % 256), 302))
             [] Top.pc = 302 ->
                    Skip(<<F_bus_write8((px \div 256) % 256),
                           [Top EXCEPT !.pc = 299, !.i = Top.i + 1]>>
                         \o Tail(stack))

gpio_write_pixels ==
    /\ Running("gpio_write_pixels")
    /\ LET px == PixelAt(Top.pixels, Top.i)
       IN  CASE Top.pc = 299 ->
                    IF Top.i < Top.count THEN Skip(Goto(301)) ELSE Skip(Return)
             [] Top.pc = 301 -> Skip(Call(F_bus_write8((px \div 256) % 256), 302))
             [] Top.pc = 302 ->
                    Skip(<<F_bus_write8(px % 256),
                           [Top EXCEPT !.pc = 299, !.i = Top.i + 1]>>
                         \o Tail(stack))

\* ---- detect_pi_model (lines 63..111) ----
\* A text is the sequence of its characters.  /proc/cpuinfo is [fp |-> whether
\* fopen succeeds, v |-> the lines fgets returns, each shorter than the
\* 256-byte buffer].
Cpuinfo(lines) == [fp |-> TRUE, v |-> lines]
NoFile == [fp |-> FALSE, v |-> <<>>]

\* strstr(hay, needle) != NULL
strstr(hay, needle) ==
    \E i \in 1..(Len(hay) - Len(needle) + 1) :
        SubSeq(hay, i, i + Len(needle) - 1) = needle

\* strncmp(s, prefix, strlen(prefix)) == 0
strncmp0(s, prefix) ==
    Len(s) >= Len(prefix) /\ SubSeq(s, 1, Len(prefix)) = prefix

\* strchr(s, c): the index of the first c in s, 0 when there is none
strchr(s, c) ==
    IF \E i \in 1..Len(s) : s[i] = c
    THEN CHOOSE i \in 1..Len(s) : s[i] = c /\ \A j \in 1..(i - 1) : s[j] # c
    ELSE 0

HexDigits ==
    <<"0", "1", "2", "3", "4", "5", "6", "7", "8", "9",
      "a", "b", "c", "d", "e", "f">>
HexUpper == <<"A", "B", "C", "D", "E", "F">>

IsXDigit(c) ==
    \/ \E d \in 1..16 : HexDigits[d] = c
    \/ \E d \in 1..6 : HexUpper[d] = c

XDigitValue(c) ==
    IF \E d \in 1..16 : HexDigits[d] = c
    THEN (CHOOSE d \in 1..16 : HexDigits[d] = c) - 1
    ELSE (CHOOSE d \in 1..6 : HexUpper[d] = c) + 9

\* isspace in the C locale; "\\v" stands for the vertical tab
IsSpace(c) == c \in {" ", "\t", "\n", "\r", "\f", "\\v"}

\* the digits of strtoul: the value of the longest run of hex digits of s
\* starting at index i, continuing from acc
RECURSIVE HexRun(_, _, _)
HexRun(s, i, acc) ==
    IF i <= Len(s) /\ IsXDigit(s[i])
    THEN HexRun(s, i + 1, acc * 16 + XDigitValue(s[i]))
    ELSE acc

RECURSIVE SkipSpace(_, _)
SkipSpace(s, i) ==
    IF i <= Len(s) /\ IsSpace(s[i]) THEN SkipSpace(s, i + 1) ELSE i

\* strtoul(s + from - 1, NULL, 16) for texts without a sign and of at most
\* seven hex digits: leading white space and an optional 0x are skipped, no
\* digits give 0
strtoul16(s, from) ==
    LET i == SkipSpace(s, from)
        j == IF /\ i + 2 <= Len(s) /\ s[i] = "0" /\ s[i + 1] \in {"x", "X"}
                /\ IsXDigit(s[i + 2])
             THEN i + 2 ELSE i
    IN  HexRun(s, j, 0)

S_Model    == <<"M", "o", "d", "e", "l">>
S_Pi5      == <<"P", "i", " ", "5">>
S_Revision == <<"R", "e", "v", "i", "s", "i", "o", "n">>

\* lines 77..95 for one line: the flags after it and whether the loop breaks
ScanLine(line, found_revision) ==
    IF strstr(line, S_Model) /\ strstr(line, S_Pi5)
    THEN [c |-> TRUE, found_revision |-> found_revision, is_pi5 |-> TRUE]
    ELSE IF strncmp0(line, S_Revision)
    THEN LET colon == strchr(line, ":")
             rev   == strtoul16(line, colon + 1)
             type  == (rev \div 16) % 256
             pi5   == /\ colon # 0
                      /\ (rev \div Pow2(23)) % 2 = 1
                      /\ type = 23
         IN  [c |-> pi5, found_revision |-> TRUE, is_pi5 |-> pi5]
    ELSE [c |-> FALSE, found_revision |-> found_revision, is_pi5 |-> FALSE]

\* the while loop of lines 75..96 from line n on
RECURSIVE ScanLines(_, _, _)
ScanLines(fp, n, found_revision) ==
    IF n > Len(fp)
    THEN [c |-> FALSE, found_revision |-> found_revision, is_pi5 |-> FALSE]
    ELSE LET r == ScanLine(fp[n], found_revision)
         IN  IF r.c THEN r ELSE ScanLines(fp, n + 1, r.found_revision)

\* Lines 63..111: -1 when /proc/cpuinfo cannot be opened or names a Pi 5,
\* otherwise 0 (with a warning when no Revision line was found).
detect_pi_model(cpuinfo) ==
    IF ~cpuinfo.fp THEN -1
    ELSE IF ScanLines(cpuinfo.v, 1, FALSE).is_pi5 THEN -1
    ELSE 0

\* the /proc/cpuinfo contents the model tries: unreadable; empty; a PC (no
\* Revision line); a Pi 1 with an old-style revision; a Pi 4; a Pi 5; a Pi 5
\* known by its Model line only; by its Revision line only, in lower and in
\* upper case; and a revision with type 0x17 whose new-style bit is clear
L_Rev(hex) == S_Revision \o <<"\t", ":", " ">> \o hex
L_Model(name) == S_Model \o <<"\t", ":", " ">> \o name
CpuinfoFiles ==
    {NoFile,
     Cpuinfo(<<>>),
     Cpuinfo(<<<<"m", "o", "d", "e", "l", " ", "n", "a", "m", "e", " ", ":", " ", "x", "8", "6">>>>),
     Cpuinfo(<<L_Rev(<<"0", "0", "0", "e">>)>>),
     Cpuinfo(<<L_Rev(<<"c", "0", "3", "1", "1", "1">>),
               L_Model(<<"P", "i", " ", "4">>)>>),
     Cpuinfo(<<L_Rev(<<"d", "0", "4", "1", "7", "0">>),
               L_Model(S_Pi5)>>),
     Cpuinfo(<<L_Model(S_Pi5)>>),
     Cpuinfo(<<L_Rev(<<"c", "0", "4", "1", "7", "0">>)>>),
     Cpuinfo(<<L_Rev(<<"0", "X", "C", "0", "4", "1", "7", "0">>)>>),
     Cpuinfo(<<L_Rev(<<"4", "0", "4", "1", "7", "0">>)>>)}

\* the caller's frame with the returned handle in its local `bus`; a call from
\* outside just ends
ReturnBus(v) ==
    IF Len(stack) > 1
    THEN <<[stack[2] EXCEPT !.bus = v]>> \o SubSeq(stack, 3, Len(stack))
    ELSE <<>>

\* a statement that changes what the handle holds
HandleStep(h, next) ==
    /\ handle' = h
    /\ stack' = next
    /\ UNCHANGED <<lev, cur, sinceDmb, log, g_running, now, touch, dev>>

\* the pins gpio_bus_open makes outputs, in the order of lines 214..222
OutputPins == <<GPIO_RST, GPIO_CS, GPIO_DC, GPIO_WR, GPIO_RD>> \o db_pins

\* the frame of gpio_bus_open; cpuinfo is what detect_pi_model read
F_gpio_bus_open ==
    [cpuinfo |-> NoFile, fn |-> "gpio_bus_open", i |-> 0, pc |-> 182]

\* gpio_bus_open that forgets close(bus->fd) when mmap fails
gpio_bus_open_leak_fd ==
    /\ Running("gpio_bus_open")
    /\ CASE Top.pc = 182 ->
                \E f \in CpuinfoFiles :
                    Skip(<<[Top EXCEPT !.cpuinfo = f,
                                       !.pc = IF detect_pi_model(f) < 0
                                              THEN 183 ELSE 185]>>
                         \o Tail(stack))
         [] Top.pc = 183 -> Skip(ReturnBus(FALSE))
         [] Top.pc = 185 ->
                \/ HandleStep([handle EXCEPT !.heap = TRUE], Goto(191))
                \/ Skip(ReturnBus(FALSE))
         [] Top.pc = 191 ->
                \/ HandleStep([handle EXCEPT !.fd = TRUE], Goto(198))
                \/ Skip(Goto(193))
         [] Top.pc = 193 ->
                HandleStep([handle EXCEPT !.heap = FALSE], ReturnBus(FALSE))
         [] Top.pc = 198 ->
                \/ HandleStep([handle EXCEPT !.map = TRUE], Goto(207))
                \/ Skip(Goto(202))
         [] Top.pc = 201 ->
                HandleStep([handle EXCEPT !.fd = FALSE], Goto(202))
         [] Top.pc = 202 ->
                HandleStep([handle EXCEPT !.heap = FALSE], ReturnBus(FALSE))
         [] Top.pc = 207 -> Skip(Goto(214))
         [] Top.pc = 214 ->
                IF Top.i < Len(OutputPins)
                THEN HandleStep([handle EXCEPT
                                     !.fsel = gpio_set_output(@, OutputPins[Top.i + 1])],
                                <<[Top EXCEPT !.i = Top.i + 1]>> \o Tail(stack))
                ELSE Skip(Goto(230))
         [] Top.pc = 230 ->
                Store("GPSET0", wr_mask \cup dc_mask \cup rd_mask, Goto(231))
         [] Top.pc = 231 -> Store("GPCLR0", cs_mask, Goto(234))
         [] Top.pc = 234 -> Skip(Goto(237))
         [] Top.pc = 237 -> Skip(ReturnBus(TRUE))

\* Lines 180..238.  detect_pi_model, calloc, open and mmap each succeed or
\* fail; gpio_set_output (lines 122..130) rewrites the function field of one
\* pin in GPFSELn; the masks of lines 207..211 and the tables of line 234 are
\* the operators wr_mask .. lut_clr.
gpio_bus_open ==
    /\ Running("gpio_bus_open")
    /\ CASE Top.pc = 182 ->
                \E f \in CpuinfoFiles :
                    Skip(<<[Top EXCEPT !.cpuinfo = f,
                                       !.pc = IF detect_pi_model(f) < 0
                                              THEN 183 ELSE 185]>>
                         \o Tail(stack))
         [] Top.pc = 183 -> Skip(ReturnBus(FALSE))
         [] Top.pc = 185 ->
                \/ HandleStep([handle EXCEPT !.heap = TRUE], Goto(191))
                \/ Skip(ReturnBus(FALSE))
         [] Top.pc = 191 ->
                \/ HandleStep([handle EXCEPT !.fd = TRUE], Goto(198))
                \/ Skip(Goto(193))
         [] Top.pc = 193 ->
                HandleStep([handle EXCEPT !.heap = FALSE], ReturnBus(FALSE))
         [] Top.pc = 198 ->
                \/ HandleStep([handle EXCEPT !.map = TRUE], Goto(207))
                \/ Skip(Goto(201))
         [] Top.pc = 201 ->
                HandleStep([handle EXCEPT !.fd = FALSE], Goto(202))
         [] Top.pc = 202 ->
                HandleStep([handle EXCEPT !.heap = FALSE], ReturnBus(FALSE))
         [] Top.pc = 207 -> Skip(Goto(214))
         [] Top.pc = 214 ->
                IF Top.i < Len(OutputPins)
                THEN HandleStep([handle EXCEPT
                                     !.fsel = gpio_set_output(@, OutputPins[Top.i + 1])],
                                <<[Top EXCEPT !.i = Top.i + 1]>> \o Tail(stack))
                ELSE Skip(Goto(230))
         [] Top.pc = 230 ->
                Store("GPSET0", wr_mask \cup dc_mask \cup rd_mask, Goto(231))
         [] Top.pc = 231 -> Store("GPCLR0", cs_mask, Goto(234))
         [] Top.pc = 234 -> Skip(Goto(237))
         [] Top.pc = 237 -> Skip(ReturnBus(TRUE))

F_gpio_bus_close(bus) == [bus |-> bus, fn |-> "gpio_bus_close", pc |-> 242]

\* gpio_bus_close that deselects the panel after unmapping the registers
gpio_bus_close_unmap_first ==
    /\ Running("gpio_bus_close")
    /\ CASE Top.pc = 242 -> IF Top.bus THEN Skip(Goto(249)) ELSE Skip(Return)
         [] Top.pc = 249 ->
                IF handle.map THEN HandleStep([handle EXCEPT !.map = FALSE], Goto(246))
                ELSE Skip(Goto(246))
         [] Top.pc = 246 -> Store("GPSET0", cs_mask, Goto(252))
         [] Top.pc = 252 ->
                IF handle.fd THEN HandleStep([handle EXCEPT !.fd = FALSE], Goto(255))
                ELSE Skip(Goto(255))
         [] Top.pc = 255 -> HandleStep([handle EXCEPT !.heap = FALSE], Return)

\* Lines 240..256: CS is driven high, the registers are unmapped, the device
\* is closed and the handle freed.
gpio_bus_close ==
    /\ Running("gpio_bus_close")
    /\ CASE Top.pc = 242 -> IF Top.bus THEN Skip(Goto(246)) ELSE Skip(Return)
         [] Top.pc = 246 ->
                IF handle.map THEN Store("GPSET0", cs_mask, Goto(249))
                ELSE Skip(Goto(249))
         [] Top.pc = 249 ->
                IF handle.map THEN HandleStep([handle EXCEPT !.map = FALSE], Goto(252))
                ELSE Skip(Goto(252))
         [] Top.pc = 252 ->
                IF handle.fd THEN HandleStep([handle EXCEPT !.fd = FALSE], Goto(255))
                ELSE Skip(Goto(255))
         [] Top.pc = 255 -> HandleStep([handle EXCEPT !.heap = FALSE], Return)

ctrl_pins == <<GPIO_RST, GPIO_CS, GPIO_DC, GPIO_WR, GPIO_RD>>

F_gpio_bus_probe(bus) == [bus |-> bus, fn |-> "gpio_bus_probe", i |-> 0, pc |-> 312]

\* sleep(3) between the two stores of a probed pin
ProbeSleep(next) ==
    /\ log' = Record(log, <<[k |-> "sleep", v |-> 3000000]>>)
    /\ stack' = next
    /\ UNCHANGED <<lev, cur, sinceDmb, daemon>>

\* Lines 310..358: every pin is driven high for 3 s and low again, the
\* control pins first, then the idle levels are restored.
gpio_bus_probe ==
    /\ Running("gpio_bus_probe")
    /\ LET next(pc)    == <<[Top EXCEPT !.pc = pc]>> \o Tail(stack)
           loop(i, pc) == <<[Top EXCEPT !.i = i, !.pc = pc]>> \o Tail(stack)
       IN CASE Top.pc = 312 -> IF Top.bus THEN Skip(Goto(315)) ELSE Skip(Return)
            [] Top.pc = 315 ->
                   Store("GPSET0", wr_mask \cup dc_mask \cup rd_mask \cup cs_mask,
                         loop(0, 316))
            [] Top.pc = 316 ->
                   IF Top.i < 8
                   THEN Store("GPCLR0", {db_pins[Top.i + 1]}, loop(Top.i + 1, 316))
                   ELSE Skip(loop(0, 331))
            [] Top.pc = 331 -> IF Top.i < 5 THEN Skip(next(336)) ELSE Skip(loop(0, 342))
            [] Top.pc = 336 -> Store("GPSET0", {ctrl_pins[Top.i + 1]}, next(337))
            [] Top.pc = 337 -> ProbeSleep(next(338))
            [] Top.pc = 338 -> Store("GPCLR0", {ctrl_pins[Top.i + 1]}, loop(Top.i + 1, 331))
            [] Top.pc = 342 -> IF Top.i < 8 THEN Skip(next(347)) ELSE Skip(next(356))
            [] Top.pc = 347 -> Store("GPSET0", {db_pins[Top.i + 1]}, next(348))
            [] Top.pc = 348 -> ProbeSleep(next(349))
            [] Top.pc = 349 -> Store("GPCLR0", {db_pins[Top.i + 1]}, loop(Top.i + 1, 342))
            [] Top.pc = 356 ->
                   Store("GPSET0", wr_mask \cup dc_mask \cup rd_mask, next(357))
            [] Top.pc = 357 -> Store("GPCLR0", cs_mask, Return)

-----------------------------------------------------------------------------
(* src/display/ili9481.c *)

\* uint8_t data[12]: the initialisers given, the rest zero
Data12(d) == d \o [i \in 1..(12 - Len(d)) |-> 0]

RegCmd(cmd, len, data, delay_ms) ==
    [cmd |-> cmd, data |-> Data12(data), delay_ms |-> delay_ms, len |-> len]

ili9481_init_cmds == <<
    RegCmd(ILI9481_SWRESET,  0, <<0>>, 50),
    RegCmd(ILI9481_SLPOUT,   0, <<0>>, 20),
    RegCmd(ILI9481_PWRSET,   3, <<7, 66, 24>>, 0),
    RegCmd(ILI9481_VMCTR,    3, <<0, 7, 16>>, 0),
    RegCmd(ILI9481_PWRNORM,  2, <<1, 2>>, 0),
    RegCmd(ILI9481_PANELDRV, 5, <<16, 59, 0, 2, 17>>, 0),
    RegCmd(ILI9481_FRMCTR,   1, <<3>>, 0),
    RegCmd(ILI9481_GAMMASET, 12, <<0, 50, 54, 69, 6, 22, 55, 117, 119, 84, 12, 0>>, 0),
    RegCmd(ILI9481_COLMOD,   1, <<ILI9481_COLMOD_12BIT>>, 0),
    RegCmd(ILI9481_DISPON,   0, <<0>>, 25) >>

ILI9481_INIT_CMD_COUNT == Len(ili9481_init_cmds)

\* ili9481_madctl_for_rotate whose default is the 0 degree byte
ili9481_madctl_for_rotate_default_0(rotate) ==
    CASE rotate = 0   -> ILI9481_MADCTL_0
      [] rotate = 90  -> ILI9481_MADCTL_90
      [] rotate = 180 -> ILI9481_MADCTL_180
      [] rotate = 270 -> ILI9481_MADCTL_270
      [] OTHER        -> ILI9481_MADCTL_0

ili9481_madctl_for_rotate(rotate) ==
    CASE rotate = 0   -> ILI9481_MADCTL_0
      [] rotate = 90  -> ILI9481_MADCTL_90
      [] rotate = 180 -> ILI9481_MADCTL_180
      [] rotate = 270 -> ILI9481_MADCTL_270
      [] OTHER        -> ILI9481_MADCTL_270

F_ili9481_init(rotate) ==
    [fn |-> "ili9481_init", i |-> 0, j |-> 0, pc |-> 88, rotate |-> rotate]

\* ili9481_init that goes on to the next command without the post-delay
ili9481_init_no_delay ==
    /\ Running("ili9481_init")
    /\ LET c == ili9481_init_cmds[Top.i + 1]
           NextCmd == <<[Top EXCEPT !.pc = 91, !.i = Top.i + 1]>> \o Tail(stack)
       IN  CASE Top.pc = 88 -> Skip(Call(F_gpio_hw_reset("bus"), 91))
             [] Top.pc = 91 ->
                    IF Top.i < ILI9481_INIT_CMD_COUNT THEN Skip(Goto(94)) ELSE Skip(Goto(102))
             [] Top.pc = 94 ->
                    Skip(<<F_gpio_write_cmd(c.cmd), [Top EXCEPT !.pc = 95, !.j = 0]>>
                         \o Tail(stack))
             [] Top.pc = 95 ->
                    IF Top.j < c.len THEN Skip(Goto(96)) ELSE Skip(NextCmd)
             [] Top.pc = 96 ->
                    Skip(<<F_gpio_write_data(c.data[Top.j + 1]),
                           [Top EXCEPT !.pc = 95, !.j = Top.j + 1]>> \o Tail(stack))
             [] Top.pc = 102 -> Skip(Call(F_gpio_write_cmd(ILI9481_MADCTL), 103))
             [] Top.pc = 103 ->
                    Skip(TailCall(F_gpio_write_data(ili9481_madctl_for_rotate(Top.rotate))))

ili9481_init ==
    /\ Running("ili9481_init")
    /\ LET c == ili9481_init_cmds[Top.i + 1]
           NextCmd == <<[Top EXCEPT !.pc = 91, !.i = Top.i + 1]>> \o Tail(stack)
       IN  CASE Top.pc = 88 -> Skip(Call(F_gpio_hw_reset("bus"), 91))
             [] Top.pc = 91 ->
                    IF Top.i < ILI9481_INIT_CMD_COUNT THEN Skip(Goto(94)) ELSE Skip(Goto(102))
             [] Top.pc = 94 ->
                    Skip(<<F_gpio_write_cmd(c.cmd), [Top EXCEPT !.pc = 95, !.j = 0]>>
                         \o Tail(stack))
             [] Top.pc = 95 ->
                    IF Top.j < c.len THEN Skip(Goto(96)) ELSE Skip(Goto(97))
             [] Top.pc = 96 ->
                    Skip(<<F_gpio_write_data(c.data[Top.j + 1]),
                           [Top EXCEPT !.pc = 95, !.j = Top.j + 1]>> \o Tail(stack))
             [] Top.pc = 97 ->
                    IF c.delay_ms # 0 THEN Skip(Goto(98)) ELSE Skip(NextCmd)
             [] Top.pc = 98 -> Usleep(c.delay_ms * 1000, NextCmd)
             [] Top.pc = 102 -> Skip(Call(F_gpio_write_cmd(ILI9481_MADCTL), 103))
             [] Top.pc = 103 ->
                    Skip(TailCall(F_gpio_write_data(ili9481_madctl_for_rotate(Top.rotate))))

\* (uint8_t) of an int argument
U8(x) == x % 256

F_ili9481_flush_full(width, height, pixels) ==
    [fn |-> "ili9481_flush_full", height |-> height, pc |-> 114,
     pixels |-> pixels, width |-> width]

\* ili9481_flush_full that gives the window ends as width and height
ili9481_flush_full_off_by_one ==
    /\ Running("ili9481_flush_full")
    /\ CASE Top.pc = 114 -> Skip(Call(F_gpio_write_cmd(ILI9481_CASET), 115))
         [] Top.pc = 115 -> Skip(Call(F_gpio_write_data(0), 116))
         [] Top.pc = 116 -> Skip(Call(F_gpio_write_data(0), 117))
         [] Top.pc = 117 -> Skip(Call(F_gpio_write_data(U8(Top.width \div 256)), 118))
         [] Top.pc = 118 -> Skip(Call(F_gpio_write_data(U8(Top.width % 256)), 121))
         [] Top.pc = 121 -> Skip(Call(F_gpio_write_cmd(ILI9481_PASET), 122))
         [] Top.pc = 122 -> Skip(Call(F_gpio_write_data(0), 123))
         [] Top.pc = 123 -> Skip(Call(F_gpio_write_data(0), 124))
         [] Top.pc = 124 -> Skip(Call(F_gpio_write_data(U8(Top.height \div 256)), 125))
         [] Top.pc = 125 -> Skip(Call(F_gpio_write_data(U8(Top.height % 256)), 128))
         [] Top.pc = 128 -> Skip(Call(F_gpio_write_cmd(ILI9481_RAMWR), 129))
         [] Top.pc = 129 ->
                Skip(TailCall(F_gpio_write_pixels(Top.pixels, Top.width * Top.height)))

ili9481_flush_full ==
    /\ Running("ili9481_flush_full")
    /\ CASE Top.pc = 114 -> Skip(Call(F_gpio_write_cmd(ILI9481_CASET), 115))
         [] Top.pc = 115 -> Skip(Call(F_gpio_write_data(0), 116))
         [] Top.pc = 116 -> Skip(Call(F_gpio_write_data(0), 117))
         [] Top.pc = 117 -> Skip(Call(F_gpio_write_data(U8((Top.width - 1) \div 256)), 118))
         [] Top.pc = 118 -> Skip(Call(F_gpio_write_data(U8((Top.width - 1) % 256)), 121))
         [] Top.pc = 121 -> Skip(Call(F_gpio_write_cmd(ILI9481_PASET), 122))
         [] Top.pc = 122 -> Skip(Call(F_gpio_write_data(0), 123))
         [] Top.pc = 123 -> Skip(Call(F_gpio_write_data(0), 124))
         [] Top.pc = 124 -> Skip(Call(F_gpio_write_data(U8((Top.height - 1) \div 256)), 125))
         [] Top.pc = 125 -> Skip(Call(F_gpio_write_data(U8((Top.height - 1) % 256)), 128))
         [] Top.pc = 128 -> Skip(Call(F_gpio_write_cmd(ILI9481_RAMWR), 129))
         [] Top.pc = 129 ->
                Skip(TailCall(F_gpio_write_pixels(Top.pixels, Top.width * Top.height)))

F_ili9481_power_off == [fn |-> "ili9481_power_off", pc |-> 134]

ili9481_power_off ==
    /\ Running("ili9481_power_off")
    /\ CASE Top.pc = 134 -> Skip(Call(F_gpio_write_cmd(ILI9481_DISPOFF), 135))
         [] Top.pc = 135 -> Usleep(20000, Goto(136))
         [] Top.pc = 136 -> Skip(Call(F_gpio_write_cmd(ILI9481_SLPIN), 137))
         [] Top.pc = 137 -> Usleep(120000, Return)

\* the levels after bus_write8(byte) in data mode has returned
AfterWrite(levels, byte) ==
    (levels \ DataPinMask) \cup lut_set(byte) \cup wr_mask \cup dc_mask

\* In a frame of more than 2 * MaxFollowed pixels the first and the last
\* MaxFollowed pixels are written store by store as lines 299..303 do; the
\* pixels between them are not followed: one step stands for their writes and
\* leaves the pins as the last of them does, the log keeping their number.
PixelsFollowed ==
    ~(/\ Running("gpio_write_pixels") /\ Top.pc = 299
      /\ Top.i = MaxFollowed /\ Top.count > 2 * MaxFollowed)

EvPixels(n) == [k |-> "pixels", v |-> n]

gpio_write_pixels_between ==
    /\ Running("gpio_write_pixels") /\ Top.pc = 299
    /\ Top.i = MaxFollowed /\ Top.count > 2 * MaxFollowed
    /\ lev' = AfterWrite(lev, PixelAt(Top.pixels, Top.count - MaxFollowed - 1) % 256)
    /\ sinceDmb' = {[mask |-> wr_mask, reg |-> "GPSET0"]}
    /\ log' = Record(log, <<EvPixels(Top.count - 2 * MaxFollowed)>>)
    /\ stack' = <<[Top EXCEPT !.i = Top.count - MaxFollowed]>> \o Tail(stack)
    /\ UNCHANGED <<cur, daemon>>

\* a call of a panel operation by main, by a mode or by the flush loop; the
\* log keeps the call
EvCall(fn) == [k |-> "call", v |-> fn]

CallPanel(frame, next) ==
    /\ log' = Record(log, <<EvCall(frame.fn)>>)
    /\ stack' = <<frame>> \o next
    /\ UNCHANGED <<lev, cur, sinceDmb, daemon>>

-----------------------------------------------------------------------------
(* src/core/service_main.c: the run flag and its signal handler *)

\* the process is running and install_signal_handlers has run: before it a
\* SIGTERM or SIGINT ends the process and no handler runs
HandlersInstalled ==
    /\ stack # <<>>
    /\ \A n \in 1..Len(stack) : stack[n].fn = "main" => stack[n].handlers

\* signal_handler that also deselects the panel
signal_handler_deselects ==
    /\ HandlersInstalled
    /\ g_running' = 0
    /\ lev' = ApplyStore(lev, "GPSET0", cs_mask)
    /\ log' = Record(log, PanelSees(lev, ApplyStore(lev, "GPSET0", cs_mask)))
    /\ UNCHANGED <<stack, cur, sinceDmb, handle, now, touch, dev>>

\* signal_handler, on a SIGTERM or SIGINT delivered between any two steps; a
\* second signal stores 0 to the flag again.  A signal that arrives while a
\* thread waits in usleep or clock_nanosleep also ends the wait: that is part
\* of Usleep and of fb_flush_loop_wait.
signal_handler ==
    /\ HandlersInstalled
    /\ g_running' = 0
    /\ UNCHANGED <<lev, stack, cur, sinceDmb, log, handle, now, touch, dev>>

-----------------------------------------------------------------------------
(* struct timespec *)

NSEC_PER_SEC == 1000000000

Timespec(sec, nsec) == [tv_nsec |-> nsec, tv_sec |-> sec]

\* a is not later than b
TsLeq(a, b) == a.tv_sec < b.tv_sec \/ (a.tv_sec = b.tv_sec /\ a.tv_nsec <= b.tv_nsec)

TsMax(a, b) == IF TsLeq(a, b) THEN b ELSE a

\* a + b, both with tv_nsec below one second
TsAdd(a, b) ==
    LET ns == a.tv_nsec + b.tv_nsec
    IN  IF ns >= NSEC_PER_SEC
        THEN Timespec(a.tv_sec + b.tv_sec + 1, ns - NSEC_PER_SEC)
        ELSE Timespec(a.tv_sec + b.tv_sec, ns)

-----------------------------------------------------------------------------
(* src/display/framebuffer.c: pixel conversion and scale_frame *)

\* bit k of the little-endian 32-bit word made of the four bytes w; a shift
\* brings in zeros above bit 31
WordBit(w, k) == IF k > 31 THEN 0 ELSE (w[(k \div 8) + 1] \div Pow2(k % 8)) % 2

\* a | b for numbers below 2^bits
RECURSIVE BitOr(_, _, _)
BitOr(a, b, bits) ==
    IF bits = 0 THEN 0
    ELSE (IF a % 2 = 1 \/ b % 2 = 1 THEN 1 ELSE 0)
             + 2 * BitOr(a \div 2, b \div 2, bits - 1)

\* A shift of a uint32_t by 32 or more is undefined.  The builds differ in
\* what the shift instruction does with such a count: x86-64 and AArch64 take
\* it modulo 32 ("wrap"), 32-bit ARM shifts every bit out ("out").
ShiftRules == {"wrap", "out"}

\* the count a shift by n has under a rule; 32 stands for every bit out
ShiftCount(n, rule) == IF n < 32 THEN n ELSE IF rule = "wrap" THEN n % 32 ELSE 32

\* Lines 78..84 for one channel under a rule: bit j of the channel after
\* (px >> off) & ((1u << len) - 1) and its normalisation to `to` bits.  The
\* mask (1u << len) - 1 has the low ShiftCount(len) bits; with every bit of
\* 1u shifted out it is 0 - 1, all 32 bits.
FieldBit(px, off, len, to, rule, j) ==
    LET c == ShiftCount(off, rule)
        m == ShiftCount(len, rule)
        s == IF len > to THEN ShiftCount(len - to, rule) ELSE len - to
        i == j + s
    IN  IF i < 0 \/ i > 31 \/ i >= m THEN 0 ELSE WordBit(px, c + i)

\* the low `bits` bits of the channel
RECURSIVE Field(_, _, _, _, _, _)
Field(px, off, len, to, rule, bits) ==
    IF bits = 0 THEN 0
    ELSE Field(px, off, len, to, rule, bits - 1)
             + FieldBit(px, off, len, to, rule, bits - 1) * Pow2(bits - 1)

\* pixel32_to_rgb565 that keeps the low bits of a wide channel
pixel32_to_rgb565_low_bits(px, r_off, r_len, g_off, g_len, b_off, b_len) ==
    {LET r == Field(px, r_off, r_len, r_len, rule, 5)
         g == Field(px, g_off, g_len, g_len, rule, 6)
         b == Field(px, b_off, b_len, b_len, rule, 5)
     IN  BitOr(BitOr(r * 2048, g * 32, 16), b, 16) : rule \in ShiftRules}

\* Lines 72..87.  px is the pixel as its four bytes, least significant first.
\* The values the call may return: one for each shift rule.  Line 86 keeps
\* the low 16 bits of (r << 11) | (g << 5) | b, that is the low 5 bits of r,
\* the low 11 bits of g and the low 16 bits of b.
pixel32_to_rgb565(px, r_off, r_len, g_off, g_len, b_off, b_len) ==
    {LET r == Field(px, r_off, r_len, 5, rule, 5)
         g == Field(px, g_off, g_len, 6, rule, 11)
         b == Field(px, b_off, b_len, 5, rule, 16)
     IN  BitOr(BitOr(r * 2048, g * 32, 16), b, 16) : rule \in ShiftRules}

\* the uint16_t and the uint32_t at byte offset `at` of the mapped source
Load16(map, at) == map[at + 1] + 256 * map[at + 2]
Load32(map, at) == SubSeq(map, at + 1, at + 4)

\* scale_frame that takes the last source pixel under a destination pixel
ScaleIndex_last(d, s, t) == ((d + 1) * s - 1) \div t

\* Numbers too wide for one integer of the model checker are kept as two
\* 16-bit halves, [hi, lo] for hi * 2^16 + lo.
\* d * s as it is in the integers, for d < 2^16 and s < 2^17
WideMul(d, s) ==
    LET a == d * (s \div 256)
        m == (a % 256) * 256 + d * (s % 256)
    IN  [hi |-> (a \div 256) + (m \div 65536), lo |-> m % 65536]

\* w + x for x < 2^16
WideAdd(w, x) ==
    [hi |-> w.hi + (w.lo + x) \div 65536, lo |-> (w.lo + x) % 65536]

WideLess(a, b) == a.hi < b.hi \/ (a.hi = b.hi /\ a.lo < b.lo)

\* (uint32_t)w: the value modulo 2^32
Wrap32(w) == [hi |-> w.hi % 65536, lo |-> w.lo]

\* w / t for a 32-bit w and 0 < t < 2^17, byte by byte from the top
WideDiv(w, t) ==
    LET r3 == (w.hi \div 256) % t
        n2 == r3 * 256 + (w.hi % 256)
        n1 == (n2 % t) * 256 + (w.lo \div 256)
        n0 == (n1 % t) * 256 + (w.lo % 256)
    IN  [hi |-> ((w.hi \div 256) \div t) * 256 + (n2 \div t),
         lo |-> (n1 \div t) * 256 + (n0 \div t)]

\* the index rounded up instead of down
ScaleIndex_round_up(d, s, t) ==
    LET q == WideDiv(Wrap32(WideAdd(WideMul(d, s), t - 1)), t)
    IN  q.hi * 65536 + q.lo

\* lines 105, 109, 125, 129: d * s / t in uint32_t, the product modulo 2^32
ScaleIndex(d, s, t) ==
    LET q == WideDiv(Wrap32(WideMul(d, s)), t)
    IN  q.hi * 65536 + q.lo

\* lines 105 and 109 (125 and 129) for one destination pixel (dx, dy) of a
\* frame of any size: the source row, then the source column
F_scale_frame_sample(sw, sh, tw, th, dx, dy) ==
    [dx |-> dx, dy |-> dy, fn |-> "scale_frame_sample", pc |-> 105,
     src_height |-> sh, src_width |-> sw, sx |-> 0, sy |-> 0,
     tft_height |-> th, tft_width |-> tw]

scale_frame_sample ==
    /\ Running("scale_frame_sample")
    /\ CASE Top.pc = 105 ->
                Skip(<<[Top EXCEPT !.pc = 109,
                                   !.sy = ScaleIndex(Top.dy, Top.src_height, Top.tft_height)]>>
                     \o Tail(stack))
         [] Top.pc = 109 ->
                Skip(<<[Top EXCEPT !.pc = 110,
                                   !.sx = ScaleIndex(Top.dx, Top.src_width, Top.tft_width)]>>
                     \o Tail(stack))
         [] Top.pc = 110 -> Skip(Return)

F_scale_frame(fb) ==
    [dx |-> 0, dy |-> 0, fb |-> fb, fn |-> "scale_frame", pc |-> 102, sy |-> 0]

\* Lines 93..136, one statement of the loops per step.  The frame's fb is the
\* struct fb_provider; the destination pixel is stored into fb.scale_buf.
scale_frame ==
    /\ Running("scale_frame")
    /\ LET fb   == Top.fb
           tw   == fb.tft_width
           th   == fb.tft_height
           sw   == fb.src_width
           sh   == fb.src_height
           next(f) == Skip(<<f>> \o Tail(stack))
           sx   == ScaleIndex(Top.dx, sw, tw)
           px16 == Load16(fb.map, Top.sy * fb.src_stride + 2 * sx)
           px32 == pixel32_to_rgb565(Load32(fb.map, Top.sy * fb.src_stride + 4 * sx),
                                     fb.red_offset, fb.red_length,
                                     fb.green_offset, fb.green_length,
                                     fb.blue_offset, fb.blue_length)
           store(px) == [Top EXCEPT !.fb.scale_buf[Top.dy * tw + Top.dx + 1] = px,
                                    !.dx = Top.dx + 1]
       IN CASE Top.pc = 102 ->
                   IF fb.src_bpp = 16 THEN Skip(Goto(104)) ELSE Skip(Goto(124))
            [] Top.pc = 104 ->
                   IF Top.dy < th THEN Skip(Goto(105)) ELSE Skip(Goto(113))
            [] Top.pc = 105 ->
                   next([Top EXCEPT !.sy = ScaleIndex(Top.dy, sh, th),
                                    !.dx = 0, !.pc = 108])
            [] Top.pc = 108 ->
                   IF Top.dx < tw THEN Skip(Goto(109))
                   ELSE next([Top EXCEPT !.dy = Top.dy + 1, !.pc = 104])
            [] Top.pc = 109 -> next([store(px16) EXCEPT !.pc = 108])
            [] Top.pc = 113 -> Skip(Return)
            [] Top.pc = 124 ->
                   IF Top.dy < th THEN Skip(Goto(125)) ELSE Skip(Goto(136))
            [] Top.pc = 125 ->
                   next([Top EXCEPT !.sy = ScaleIndex(Top.dy, sh, th),
                                    !.dx = 0, !.pc = 128])
            [] Top.pc = 128 ->
                   IF Top.dx < tw THEN Skip(Goto(129))
                   ELSE next([Top EXCEPT !.dy = Top.dy + 1, !.pc = 124])
            [] Top.pc = 129 ->
                   \E px \in px32 : next([store(px) EXCEPT !.pc = 128])
            [] Top.pc = 136 -> Skip(Return)

\* ---- fb_provider_init (lines 142..230) ----
\* the frame of the caller with the returned provider in its local `fb`
ReturnFb(v) ==
    IF Len(stack) > 1
    THEN <<[stack[2] EXCEPT !.fb = v]>> \o SubSeq(stack, 3, Len(stack))
    ELSE <<>>

\* the depths FBIOGET_VSCREENINFO reports in the model
BitsPerPixel == {8, 16, 24, 32}

\* line 162 accepting every depth of whole bytes above 8
SupportedDepth_bytes(bits_per_pixel) == bits_per_pixel % 8 = 0 /\ bits_per_pixel > 8

\* line 162
SupportedDepth(bits_per_pixel) == bits_per_pixel = 16 \/ bits_per_pixel = 32

\* the locals of fb_provider_init: fd is open, map is mapped, scale_buf and
\* the struct (heap) are allocated
F_fb_provider_init ==
    [bits_per_pixel |-> 0, fd |-> FALSE, fn |-> "fb_provider_init",
     heap |-> FALSE, map |-> FALSE, pc |-> 149, scale_buf |-> FALSE]

\* Lines 142..230: open, the two ioctls, mmap and the two callocs each succeed
\* or fail; every failure path releases what was acquired and returns NULL.
fb_provider_init ==
    /\ Running("fb_provider_init")
    /\ LET next(f) == Skip(<<f>> \o Tail(stack))
       IN CASE Top.pc = 149 ->
                   \/ next([Top EXCEPT !.fd = TRUE, !.pc = 156])
                   \/ Skip(Goto(152))
            [] Top.pc = 152 -> Skip(ReturnFb(FALSE))
            [] Top.pc = 156 ->
                   \/ \E b \in BitsPerPixel :
                          next([Top EXCEPT !.bits_per_pixel = b, !.pc = 162])
                   \/ Skip(Goto(158))
            [] Top.pc = 158 -> next([Top EXCEPT !.fd = FALSE, !.pc = 159])
            [] Top.pc = 159 -> Skip(ReturnFb(FALSE))
            [] Top.pc = 162 ->
                   IF SupportedDepth(Top.bits_per_pixel)
                   THEN Skip(Goto(170)) ELSE Skip(Goto(165))
            [] Top.pc = 165 -> next([Top EXCEPT !.fd = FALSE, !.pc = 166])
            [] Top.pc = 166 -> Skip(ReturnFb(FALSE))
            [] Top.pc = 170 -> Skip(Goto(182)) \/ Skip(Goto(172))
            [] Top.pc = 172 -> next([Top EXCEPT !.fd = FALSE, !.pc = 173])
            [] Top.pc = 173 -> Skip(ReturnFb(FALSE))
            [] Top.pc = 182 ->
                   \/ next([Top EXCEPT !.map = TRUE, !.pc = 190])
                   \/ Skip(Goto(185))
            [] Top.pc = 185 -> next([Top EXCEPT !.fd = FALSE, !.pc = 186])
            [] Top.pc = 186 -> Skip(ReturnFb(FALSE))
            [] Top.pc = 190 ->
                   \/ next([Top EXCEPT !.scale_buf = TRUE, !.pc = 198])
                   \/ Skip(Goto(193))
            [] Top.pc = 193 -> next([Top EXCEPT !.map = FALSE, !.pc = 194])
            [] Top.pc = 194 -> next([Top EXCEPT !.fd = FALSE, !.pc = 195])
            [] Top.pc = 195 -> Skip(ReturnFb(FALSE))
            [] Top.pc = 198 ->
                   \/ next([Top EXCEPT !.heap = TRUE, !.pc = 229])
                   \/ Skip(Goto(200))
            [] Top.pc = 200 -> next([Top EXCEPT !.scale_buf = FALSE, !.pc = 201])
            [] Top.pc = 201 -> next([Top EXCEPT !.map = FALSE, !.pc = 202])
            [] Top.pc = 202 -> next([Top EXCEPT !.fd = FALSE, !.pc = 203])
            [] Top.pc = 203 -> Skip(ReturnFb(FALSE))
            [] Top.pc = 229 -> Skip(ReturnFb(TRUE))

-----------------------------------------------------------------------------
(* src/display/framebuffer.c: fb_flush_loop *)

\* what scale_frame leaves in fb->scale_buf depends on the source framebuffer,
\* which other processes draw into: one of these buffers of n pixels
ScaledBufs(n) ==
    {Filled(43981)} \cup (IF n <= MaxPixels
                          THEN {Buf([i \in 1..n |-> (i * 257) % 65536])}
                          ELSE {Filled(258)})

\* how long one conversion and flush take: a millisecond, or a second and a half
WorkTimes == {Timespec(0, 1000000), Timespec(1, 500000000)}

\* what clock_gettime returns when the loop starts
StartTimes == {Timespec(7, 0), Timespec(7, 999999999)}

\* scale_frame as the log records it
EvScale(n) == [k |-> "scale", v |-> n]

\* fb->scale_buf is calloc'ed by fb_provider_init
F_fb_flush_loop(tft_width, tft_height, fps) ==
    [fn |-> "fb_flush_loop", fps |-> fps, fps_start |-> Epoch, frame_count |-> 0,
     frame_ns |-> 0, height |-> tft_height, next_tick |-> Epoch, pc |-> 237,
     scale_buf |-> Filled(0),
     width |-> tft_width]

\* a step of the loop that changes only its frame, and the clock
LoopStep(frame, clock) ==
    /\ stack' = <<frame>> \o Tail(stack)
    /\ now' = clock
    /\ UNCHANGED <<lev, cur, sinceDmb, log, handle, g_running, touch, dev>>

\* lines 237..242: the frame interval and the first deadline
fb_flush_loop_setup ==
    CASE Top.pc = 237 ->
            LoopStep([Top EXCEPT !.frame_ns = NSEC_PER_SEC \div Top.fps, !.pc = 241], now)
      [] Top.pc = 241 ->
            \E t \in StartTimes : LoopStep([Top EXCEPT !.next_tick = t, !.pc = 242], t)
      [] Top.pc = 242 ->
            LoopStep([Top EXCEPT !.fps_start = Top.next_tick, !.pc = 248], now)

\* line 248, while (*running), and the return after the loop
fb_flush_loop_test ==
    CASE Top.pc = 248 ->
            IF g_running # 0
            THEN Top.frame_count < MaxFrames /\ Skip(Goto(250))
            ELSE Skip(Goto(280))
      [] Top.pc = 280 -> Skip(Return)

\* the wait of line 250 that drops the frame when its deadline has passed
fb_flush_loop_wait_drop_late ==
    /\ Top.pc = 250
    /\ IF TsLeq(Top.next_tick, now) /\ Top.next_tick # now
       THEN LoopStep([Top EXCEPT !.pc = 258], now)
       ELSE \/ LoopStep([Top EXCEPT !.pc = 253], TsMax(now, Top.next_tick))
            \/ g_running = 0 /\ LoopStep([Top EXCEPT !.pc = 253], now)

\* line 250: clock_nanosleep with TIMER_ABSTIME returns at once when the
\* deadline has passed and at the deadline otherwise; a signal handled during
\* the sleep ends it early (EINTR, the handlers are installed without
\* SA_RESTART), and the return value is not looked at
fb_flush_loop_wait ==
    /\ Top.pc = 250
    /\ \/ LoopStep([Top EXCEPT !.pc = 253], TsMax(now, Top.next_tick))
       \/ g_running = 0 /\ LoopStep([Top EXCEPT !.pc = 253], now)

\* lines 253..270: scale_frame, the flush and the frame counter; the time the
\* conversion and the flush take is added to the clock at line 253; the FPS
\* report of lines 261..270 only logs
fb_flush_loop_frame ==
    CASE Top.pc = 253 ->
            \E buf \in ScaledBufs(Top.width * Top.height), d \in WorkTimes :
                /\ stack' = <<[Top EXCEPT !.pc = 256, !.scale_buf = buf]>> \o Tail(stack)
                /\ now' = TsAdd(now, d)
                /\ log' = Record(log, <<EvScale(Top.frame_count)>>)
                /\ UNCHANGED <<lev, cur, sinceDmb, handle, g_running, touch, dev>>
      [] Top.pc = 256 ->
            CallPanel(F_ili9481_flush_full(Top.width, Top.height, Top.scale_buf), Goto(258))
      [] Top.pc = 258 ->
            LoopStep([Top EXCEPT !.frame_count = Top.frame_count + 1, !.pc = 261], now)
      [] Top.pc = 261 ->
            IF Top.frame_count % (Top.fps * 10) = 0
            THEN Skip(Goto(273)) ELSE Skip(Goto(273))

\* the advance of lines 273..277 that restarts from the clock when the frame
\* came late
fb_flush_loop_advance_resync ==
    CASE Top.pc = 273 ->
            IF TsLeq(Top.next_tick, now)
            THEN LoopStep([Top EXCEPT !.next_tick = now, !.pc = 248], now)
            ELSE LoopStep([Top EXCEPT !.next_tick.tv_nsec = @ + Top.frame_ns,
                                      !.pc = 274], now)
      [] Top.pc = 274 ->
            IF Top.next_tick.tv_nsec >= NSEC_PER_SEC
            THEN Skip(Goto(275)) ELSE Skip(Goto(248))
      [] Top.pc = 275 ->
            LoopStep([Top EXCEPT !.next_tick.tv_nsec = @ - NSEC_PER_SEC, !.pc = 276], now)
      [] Top.pc = 276 ->
            LoopStep([Top EXCEPT !.next_tick.tv_sec = @ + 1, !.pc = 274], now)

\* lines 273..277: next_tick.tv_nsec += frame_ns, then whole seconds are
\* carried into tv_sec
fb_flush_loop_advance ==
    CASE Top.pc = 273 ->
            LoopStep([Top EXCEPT !.next_tick.tv_nsec = @ + Top.frame_ns, !.pc = 274], now)
      [] Top.pc = 274 ->
            IF Top.next_tick.tv_nsec >= NSEC_PER_SEC
            THEN Skip(Goto(275)) ELSE Skip(Goto(248))
      [] Top.pc = 275 ->
            LoopStep([Top EXCEPT !.next_tick.tv_nsec = @ - NSEC_PER_SEC, !.pc = 276], now)
      [] Top.pc = 276 ->
            LoopStep([Top EXCEPT !.next_tick.tv_sec = @ + 1, !.pc = 274], now)

fb_flush_loop ==
    /\ Running("fb_flush_loop")
    /\ \/ Top.pc \in {237, 241, 242} /\ fb_flush_loop_setup
       \/ Top.pc \in {248, 280}      /\ fb_flush_loop_test
       \/ fb_flush_loop_wait
       \/ Top.pc \in {253, 256, 258, 261} /\ fb_flush_loop_frame
       \/ Top.pc \in {273, 274, 275, 276} /\ fb_flush_loop_advance

-----------------------------------------------------------------------------
(* src/core/service_main.c: the touch thread as main starts it *)

\* SPI0 MISO, MOSI and SCLK are the pins of DB0, DB2 and DB1 (xpt2046.h)
Spi0Pins == {GPIO_DB0, GPIO_DB2, GPIO_DB1}

\* the thread with the struct touch_thread_args of lines 290..293; ts and ut
\* are FALSE for null pointers
F_touch_thread_fn(width, height) ==
    [down |-> 0, fn |-> "touch_thread_fn", height |-> height, pc |-> 173,
     ts |-> FALSE, ut |-> FALSE, width |-> width, x |-> "indeterminate",
     y |-> "indeterminate"]

-----------------------------------------------------------------------------
(* src/core/service_main.c: the modes and main *)

\* dummy[i] = (uint16_t)(i & 0xFFFF) of run_benchmark
Counting == [fill |-> FALSE, ramp |-> TRUE, v |-> <<>>]

F_run_benchmark(w, h) == [f |-> 0, fn |-> "run_benchmark", h |-> h, pc |-> 84, w |-> w]

\* lines 81..113: 100 flushes of the counting buffer
run_benchmark ==
    /\ Running("run_benchmark")
    /\ CASE Top.pc = 84 -> Skip(Goto(100)) \/ Skip(Return)
         [] Top.pc = 100 ->
                IF Top.f < 100
                THEN CallPanel(F_ili9481_flush_full(Top.w, Top.h, Counting),
                               <<[Top EXCEPT !.f = Top.f + 1]>> \o Tail(stack))
                ELSE Skip(Goto(112))
         [] Top.pc = 112 -> Skip(Return)

\* Of the 100 flushes the first and the last MaxFollowed are followed; the
\* flushes between them are not: one step stands for them, each leaving the
\* pins as the flush before it did, and the log keeps their number.
FlushesFollowed ==
    ~(Running("run_benchmark") /\ Top.pc = 100 /\ Top.f = MaxFollowed)

EvFlushes(n) == [k |-> "flushes", v |-> n]

run_benchmark_between ==
    /\ Running("run_benchmark") /\ Top.pc = 100 /\ Top.f = MaxFollowed
    /\ log' = Record(log, <<EvFlushes(100 - 2 * MaxFollowed)>>)
    /\ stack' = <<[Top EXCEPT !.f = 100 - MaxFollowed]>> \o Tail(stack)
    /\ UNCHANGED <<lev, cur, sinceDmb, daemon>>

fills == <<63488, 2016, 31, 65535, 0>>

F_run_test_pattern(w, h) ==
    [c |-> 0, fn |-> "run_test_pattern", h |-> h, pc |-> 122, w |-> w]

\* lines 119..154: five one-colour frames, three seconds each
run_test_pattern ==
    /\ Running("run_test_pattern")
    /\ CASE Top.pc = 122 -> Skip(Goto(143)) \/ Skip(Return)
         [] Top.pc = 143 ->
                IF Top.c < 5
                THEN CallPanel(F_ili9481_flush_full(Top.w, Top.h, Filled(fills[Top.c + 1])),
                               Goto(148))
                ELSE Skip(Goto(153))
         [] Top.pc = 148 ->
                ProbeSleep(<<[Top EXCEPT !.c = Top.c + 1, !.pc = 143]>> \o Tail(stack))
         [] Top.pc = 153 -> Skip(Return)

\* struct ili9481_config: the members main looks at
Config(benchmark, gpio_probe, test_pattern, enable_touch, rotation, fps) ==
    [benchmark |-> benchmark, enable_touch |-> enable_touch, fps |-> fps,
     gpio_probe |-> gpio_probe, rotation |-> rotation, test_pattern |-> test_pattern]

\* ---- src/core/config.c ----
IsDigit(c) == \E d \in 1..10 : HexDigits[d] = c

\* the digits of strtol in base 10: the longest run of decimal digits of s
\* starting at index i, added to acc when sign is 1 and taken from it when
\* sign is -1
RECURSIVE DecRun(_, _, _, _)
DecRun(s, i, sign, acc) ==
    IF i <= Len(s) /\ IsDigit(s[i])
    THEN DecRun(s, i + 1, sign, acc * 10 + sign * XDigitValue(s[i]))
    ELSE acc

RECURSIVE DigitCount(_, _)
DigitCount(s, i) ==
    IF i <= Len(s) /\ IsDigit(s[i]) THEN 1 + DigitCount(s, i + 1) ELSE 0

RECURSIVE SkipZeros(_, _)
SkipZeros(s, i) ==
    IF i <= Len(s) /\ s[i] = "0" THEN SkipZeros(s, i + 1) ELSE i

\* the digits of INT_MAX, of -INT_MIN, of LONG_MAX and of -LONG_MIN where long
\* has 64 bits
IntMaxDigits  == <<"2", "1", "4", "7", "4", "8", "3", "6", "4", "7">>
IntMinDigits  == <<"2", "1", "4", "7", "4", "8", "3", "6", "4", "8">>
LongMaxDigits == <<"9", "2", "2", "3", "3", "7", "2", "0", "3", "6",
                   "8", "5", "4", "7", "7", "5", "8", "0", "7">>
LongMinDigits == <<"9", "2", "2", "3", "3", "7", "2", "0", "3", "6",
                   "8", "5", "4", "7", "7", "5", "8", "0", "8">>

\* the run of k digits of s from index i on (no leading zero) is a number
\* above the one whose digits are lim
RECURSIVE DigitsAbove(_, _, _, _)
DigitsAbove(s, i, lim, n) ==
    IF n > Len(lim) THEN FALSE
    ELSE IF XDigitValue(s[i + n - 1]) # XDigitValue(lim[n])
    THEN XDigitValue(s[i + n - 1]) > XDigitValue(lim[n])
    ELSE DigitsAbove(s, i, lim, n + 1)

Above(s, i, k, lim) ==
    k > Len(lim) \/ (k = Len(lim) /\ DigitsAbove(s, i, lim, 1))

\* the low 32 bits of the number the digit run of s from i on spells, as two
\* 16-bit halves, continuing from w
RECURSIVE DecRunWide(_, _, _)
DecRunWide(s, i, w) ==
    IF i <= Len(s) /\ IsDigit(s[i])
    THEN LET lo == w.lo * 10 + XDigitValue(s[i])
             hi == w.hi * 10 + lo \div 65536
         IN  DecRunWide(s, i + 1, [hi |-> hi % 65536, lo |-> lo % 65536])
    ELSE w

\* 0 - w in 32 bits
Neg32(w) ==
    IF w.lo = 0 THEN [hi |-> (65536 - w.hi) % 65536, lo |-> 0]
    ELSE [hi |-> 65535 - w.hi, lo |-> 65536 - w.lo]

\* the int whose 32 bits are w
Int32(w) ==
    IF w.hi >= 32768 THEN (w.hi - 65536) * 65536 + w.lo ELSE w.hi * 65536 + w.lo

\* atoi of a number that does not fit an int: k digits from index i of s on,
\* negative or not.  The behaviour is undefined; atoi is (int)strtol(s, NULL,
\* 10) in the C libraries of the builds.  Where long has 64 bits the int is
\* the low 32 bits of the long, which is LONG_MAX or LONG_MIN when the number
\* does not fit a long either; where long has 32 bits (32-bit Raspberry Pi OS)
\* it is INT_MAX or INT_MIN.
IntOverflow(s, i, k, neg) ==
    LET w    == DecRunWide(s, i, [hi |-> 0, lo |-> 0])
        lp64 == IF Above(s, i, k, IF neg THEN LongMinDigits ELSE LongMaxDigits)
                THEN IF neg THEN 0 ELSE -1
                ELSE Int32(IF neg THEN Neg32(w) ELSE w)
    IN  {lp64, IF neg THEN -2147483647 - 1 ELSE 2147483647}

\* atoi(s), the set of its possible results: white space is skipped, then an
\* optional sign and the longest run of digits are taken, no digits give 0
atoi(s) ==
    LET i   == SkipSpace(s, 1)
        neg == i <= Len(s) /\ s[i] = "-"
        j   == IF i <= Len(s) /\ s[i] \in {"-", "+"} THEN i + 1 ELSE i
        z   == SkipZeros(s, j)
        k   == DigitCount(s, z)
    IN  IF Above(s, z, k, IF neg THEN IntMinDigits ELSE IntMaxDigits)
        THEN IntOverflow(s, z, k, neg)
        ELSE {DecRun(s, z, IF neg THEN -1 ELSE 1, 0)}

\* (uint32_t)n, written as the int of the same 32 bits: 4294967291 is written
\* -5.  The rotation is only compared for equality (service_main.c:245 and
\* the switch of ili9481_madctl_for_rotate).
U32(n) == n

\* lines 18..30
config_defaults == Config(FALSE, FALSE, FALSE, FALSE, 270, 30)

\* apply_kv without the lower clamp of line 50
apply_kv_no_floor(cfg, key, val) ==
    IF key \in {"rotation", "rotate"}
    THEN {[cfg EXCEPT !.rotation = U32(n)] : n \in atoi(val)}
    ELSE IF key = "fps"
    THEN {[cfg EXCEPT !.fps = IF n > 60 THEN 60 ELSE n] : n \in atoi(val)}
    ELSE IF key = "enable_touch"
    THEN {[cfg EXCEPT !.enable_touch = (n # 0)] : n \in atoi(val)}
    ELSE {cfg}

\* lines 44..62: the structs apply_kv can leave for key = val; fb_device,
\* spi_device and spi_speed are members the model does not keep, unknown keys
\* are ignored
apply_kv(cfg, key, val) ==
    IF key \in {"rotation", "rotate"}
    THEN {[cfg EXCEPT !.rotation = U32(n)] : n \in atoi(val)}
    ELSE IF key = "fps"
    THEN {[cfg EXCEPT !.fps = IF n < 1 THEN 1 ELSE IF n > 60 THEN 60 ELSE n] :
              n \in atoi(val)}
    ELSE IF key = "enable_touch"
    THEN {[cfg EXCEPT !.enable_touch = (n # 0)] : n \in atoi(val)}
    ELSE {cfg}

\* the while loop of lines 73..93 from line n on; a line is the key and the
\* value that strip and strchr cut it into
RECURSIVE LoadLines(_, _, _)
LoadLines(cfgs, lines, n) ==
    IF n > Len(lines) THEN cfgs
    ELSE LoadLines(UNION {apply_kv(c, lines[n].key, lines[n].val) : c \in cfgs},
                   lines, n + 1)

\* lines 64..98: the structs config_load can leave; the defaults remain when
\* the file cannot be opened
config_load(cfg, file) ==
    IF ~file.fp THEN {cfg} ELSE LoadLines({cfg}, file.v, 1)

\* an element of argv: the option up to and including its "=", and the text
\* after it
Arg(opt, val) == [opt |-> opt, val |-> val]

\* config_parse_args(&cfg, argc, argv); file is what fopen and fgets give for
\* the path of a --config= option
F_config_parse_args(cfg, argv, file) ==
    [argv |-> argv, cfg |-> cfg, config_path |-> FALSE, exited |-> FALSE,
     file |-> file, fn |-> "config_parse_args", i |-> 1, pc |-> 109, ret |-> 0]

\* a statement of config_parse_args that changes only its frame
ConfigStep(frame) ==
    /\ stack' = <<frame>> \o Tail(stack)
    /\ UNCHANGED <<lev, cur, sinceDmb, log, daemon>>

\* config_parse_args returns (or exit(0) ends the process): the caller's
\* struct and the return value are kept with the call
ConfigReturn(frame) ==
    /\ stack' = Tail(stack)
    /\ cur' = [cur EXCEPT !.call = frame]
    /\ UNCHANGED <<lev, sinceDmb, log, daemon>>

\* config_parse_args whose --fps= takes the number as it is
config_parse_args_fps_unclamped ==
    /\ Running("config_parse_args")
    /\ CASE Top.pc = 109 ->
                ConfigStep([Top EXCEPT
                    !.config_path = \E n \in 1..Len(Top.argv) : Top.argv[n].opt = "--config=",
                    !.pc = 116])
         [] Top.pc = 116 ->
                IF Top.config_path
                THEN \E c \in config_load(Top.cfg, Top.file) :
                         ConfigStep([Top EXCEPT !.cfg = c, !.pc = 120])
                ELSE ConfigStep([Top EXCEPT !.pc = 120])
         [] Top.pc = 120 ->
                IF Top.i > Len(Top.argv)
                THEN ConfigReturn([Top EXCEPT !.pc = 160, !.ret = 0])
                ELSE LET a == Top.argv[Top.i]
                         next(c) == ConfigStep([Top EXCEPT !.cfg = c, !.i = Top.i + 1])
                     IN  CASE a.opt = "--config="      -> next(Top.cfg)
                           [] a.opt = "--rotate="      ->
                                  \E n \in atoi(a.val) :
                                      next([Top.cfg EXCEPT !.rotation = U32(n)])
                           [] a.opt = "--fps="         ->
                                  \E n \in atoi(a.val) : next([Top.cfg EXCEPT !.fps = n])
                           [] a.opt = "--fb="          -> next(Top.cfg)
                           [] a.opt = "--touch"        ->
                                  next([Top.cfg EXCEPT !.enable_touch = TRUE])
                           [] a.opt = "--no-touch"     ->
                                  next([Top.cfg EXCEPT !.enable_touch = FALSE])
                           [] a.opt = "--benchmark"    ->
                                  next([Top.cfg EXCEPT !.benchmark = TRUE])
                           [] a.opt = "--test-pattern" ->
                                  next([Top.cfg EXCEPT !.test_pattern = TRUE])
                           [] a.opt = "--gpio-probe"   ->
                                  next([Top.cfg EXCEPT !.gpio_probe = TRUE])
                           [] a.opt \in {"--help", "-h"} ->
                                  ConfigReturn([Top EXCEPT !.exited = TRUE, !.pc = 153])
                           [] OTHER ->
                                  ConfigReturn([Top EXCEPT !.pc = 156, !.ret = -1])

\* lines 104..161, one element of argv per step: the first pass finds
\* --config=, the file is loaded, the second pass applies the options in order
config_parse_args ==
    /\ Running("config_parse_args")
    /\ CASE Top.pc = 109 ->
                ConfigStep([Top EXCEPT
                    !.config_path = \E n \in 1..Len(Top.argv) : Top.argv[n].opt = "--config=",
                    !.pc = 116])
         [] Top.pc = 116 ->
                IF Top.config_path
                THEN \E c \in config_load(Top.cfg, Top.file) :
                         ConfigStep([Top EXCEPT !.cfg = c, !.pc = 120])
                ELSE ConfigStep([Top EXCEPT !.pc = 120])
         [] Top.pc = 120 ->
                IF Top.i > Len(Top.argv)
                THEN ConfigReturn([Top EXCEPT !.pc = 160, !.ret = 0])
                ELSE LET a == Top.argv[Top.i]
                         next(c) == ConfigStep([Top EXCEPT !.cfg = c, !.i = Top.i + 1])
                     IN  CASE a.opt = "--config="      -> next(Top.cfg)
                           [] a.opt = "--rotate="      ->
                                  \E n \in atoi(a.val) :
                                      next([Top.cfg EXCEPT !.rotation = U32(n)])
                           [] a.opt = "--fps="         ->
                                  \E n \in atoi(a.val) :
                                      next([Top.cfg EXCEPT !.fps =
                                          IF n < 1 THEN 1 ELSE IF n > 60 THEN 60 ELSE n])
                           [] a.opt = "--fb="          -> next(Top.cfg)
                           [] a.opt = "--touch"        ->
                                  next([Top.cfg EXCEPT !.enable_touch = TRUE])
                           [] a.opt = "--no-touch"     ->
                                  next([Top.cfg EXCEPT !.enable_touch = FALSE])
                           [] a.opt = "--benchmark"    ->
                                  next([Top.cfg EXCEPT !.benchmark = TRUE])
                           [] a.opt = "--test-pattern" ->
                                  next([Top.cfg EXCEPT !.test_pattern = TRUE])
                           [] a.opt = "--gpio-probe"   ->
                                  next([Top.cfg EXCEPT !.gpio_probe = TRUE])
                           [] a.opt \in {"--help", "-h"} ->
                                  ConfigReturn([Top EXCEPT !.exited = TRUE, !.pc = 153])
                           [] OTHER ->
                                  ConfigReturn([Top EXCEPT !.pc = 156, !.ret = -1])

F_main(cfg) ==
    [bus |-> FALSE, cfg |-> cfg, disp_h |-> 0, disp_w |-> 0, fb |-> FALSE,
     fn |-> "main", handlers |-> FALSE, pc |-> 234, touch_tid |-> FALSE]

\* a statement of main that changes only its locals
MainStep(frame) == Skip(<<frame>> \o Tail(stack))

\* the cleanup calls of main's out: label, as the log keeps them
EvCleanup(fn) == [k |-> "cleanup", v |-> fn]

\* main calls fn at out:; fb_provider_destroy (framebuffer.c:283..298) frees
\* the scale buffer, unmaps the source, closes its device and frees the
\* provider, and touches neither a pin nor the bus handle
Cleanup(fn, next) ==
    /\ log' = Record(log, <<EvCleanup(fn)>>)
    /\ stack' = next
    /\ UNCHANGED <<lev, cur, sinceDmb, daemon>>

\* main that powers the panel off before the flush loop
main_power_off_early ==
    /\ Running("main")
    /\ CASE Top.pc = 234 -> Skip(Goto(241)) \/ Skip(Goto(321))
         [] Top.pc = 241 ->
                IF Top.cfg.rotation \in {90, 270}
                THEN MainStep([Top EXCEPT !.disp_w = ILI9481_HEIGHT,
                                          !.disp_h = ILI9481_WIDTH, !.pc = 244])
                ELSE MainStep([Top EXCEPT !.disp_w = ILI9481_WIDTH,
                                          !.disp_h = ILI9481_HEIGHT, !.pc = 244])
         [] Top.pc = 244 -> Skip(Call(F_gpio_bus_open, 245))
         [] Top.pc = 245 -> IF Top.bus THEN Skip(Goto(251)) ELSE Skip(Goto(321))
         [] Top.pc = 251 -> CallPanel(F_ili9481_init(Top.cfg.rotation), Goto(254))
         [] Top.pc = 254 ->
                IF Top.cfg.benchmark
                THEN Skip(Call(F_run_benchmark(Top.disp_w, Top.disp_h), 321))
                ELSE Skip(Goto(261))
         [] Top.pc = 261 ->
                IF Top.cfg.gpio_probe
                THEN Skip(Call(F_gpio_bus_probe(Top.bus), 321))
                ELSE Skip(Goto(268))
         [] Top.pc = 268 ->
                IF Top.cfg.test_pattern
                THEN Skip(Call(F_run_test_pattern(Top.disp_w, Top.disp_h), 321))
                ELSE Skip(Goto(275))
         [] Top.pc = 275 -> Skip(Call(F_fb_provider_init, 276))
         [] Top.pc = 276 -> IF Top.fb THEN Skip(Goto(282)) ELSE Skip(Goto(321))
         [] Top.pc = 282 -> MainStep([Top EXCEPT !.handlers = TRUE, !.pc = 289])
         [] Top.pc = 289 ->
                IF Top.cfg.enable_touch
                THEN \/ /\ stack' = <<[Top EXCEPT !.touch_tid = TRUE, !.pc = 317]>>
                                        \o Tail(stack)
                        /\ touch' = <<F_touch_thread_fn(Top.disp_w, Top.disp_h)>>
                        /\ UNCHANGED <<lev, cur, sinceDmb, log, handle, g_running, now, dev>>
                     \/ Skip(Goto(317))
                ELSE Skip(Goto(317))
         [] Top.pc = 305 -> Skip(Call(F_fb_flush_loop(Top.disp_w, Top.disp_h, Top.cfg.fps), 309))
         [] Top.pc = 309 -> IF Top.touch_tid THEN Skip(Goto(310)) ELSE Skip(Goto(321))
         [] Top.pc = 310 ->
                /\ touch # <<>> /\ Head(touch).pc = 214
                /\ touch' = NoThread
                /\ stack' = Goto(321)
                /\ UNCHANGED <<lev, cur, sinceDmb, log, handle, g_running, now, dev>>
         [] Top.pc = 317 -> CallPanel(F_ili9481_power_off, Goto(305))
         [] Top.pc = 321 ->
                IF Top.fb THEN Cleanup("fb_provider_destroy", Goto(323))
                ELSE Skip(Goto(323))
         [] Top.pc = 323 ->
                IF Top.bus
                THEN Cleanup("gpio_bus_close", Call(F_gpio_bus_close(Top.bus), 326))
                ELSE Skip(Goto(326))
         [] Top.pc = 326 -> Skip(Return)

\* Lines 222..330.  config_parse_args, fb_provider_init and pthread_create
\* succeed or fail; `fb` is the framebuffer provider being open; `handlers` is
\* install_signal_handlers having run; pthread_join returns when the touch
\* thread has returned.
\* main that closes the bus at out: without looking at the pointer
main_closes_always ==
    /\ Running("main")
    /\ CASE Top.pc = 234 -> Skip(Goto(241)) \/ Skip(Goto(321))
         [] Top.pc = 241 ->
                IF Top.cfg.rotation \in {90, 270}
                THEN MainStep([Top EXCEPT !.disp_w = ILI9481_HEIGHT,
                                          !.disp_h = ILI9481_WIDTH, !.pc = 244])
                ELSE MainStep([Top EXCEPT !.disp_w = ILI9481_WIDTH,
                                          !.disp_h = ILI9481_HEIGHT, !.pc = 244])
         [] Top.pc = 244 -> Skip(Call(F_gpio_bus_open, 245))
         [] Top.pc = 245 -> IF Top.bus THEN Skip(Goto(251)) ELSE Skip(Goto(321))
         [] Top.pc = 251 -> CallPanel(F_ili9481_init(Top.cfg.rotation), Goto(254))
         [] Top.pc = 254 ->
                IF Top.cfg.benchmark
                THEN Skip(Call(F_run_benchmark(Top.disp_w, Top.disp_h), 321))
                ELSE Skip(Goto(261))
         [] Top.pc = 261 ->
                IF Top.cfg.gpio_probe
                THEN Skip(Call(F_gpio_bus_probe(Top.bus), 321))
                ELSE Skip(Goto(268))
         [] Top.pc = 268 ->
                IF Top.cfg.test_pattern
                THEN Skip(Call(F_run_test_pattern(Top.disp_w, Top.disp_h), 321))
                ELSE Skip(Goto(275))
         [] Top.pc = 275 -> Skip(Call(F_fb_provider_init, 276))
         [] Top.pc = 276 -> IF Top.fb THEN Skip(Goto(282)) ELSE Skip(Goto(321))
         [] Top.pc = 282 -> MainStep([Top EXCEPT !.handlers = TRUE, !.pc = 289])
         [] Top.pc = 289 ->
                IF Top.cfg.enable_touch
                THEN \/ /\ stack' = <<[Top EXCEPT !.touch_tid = TRUE, !.pc = 305]>>
                                        \o Tail(stack)
                        /\ touch' = <<F_touch_thread_fn(Top.disp_w, Top.disp_h)>>
                        /\ UNCHANGED <<lev, cur, sinceDmb, log, handle, g_running, now, dev>>
                     \/ Skip(Goto(305))
                ELSE Skip(Goto(305))
         [] Top.pc = 305 -> Skip(Call(F_fb_flush_loop(Top.disp_w, Top.disp_h, Top.cfg.fps), 309))
         [] Top.pc = 309 -> IF Top.touch_tid THEN Skip(Goto(310)) ELSE Skip(Goto(317))
         [] Top.pc = 310 ->
                /\ touch # <<>> /\ Head(touch).pc = 214
                /\ touch' = NoThread
                /\ stack' = Goto(317)
                /\ UNCHANGED <<lev, cur, sinceDmb, log, handle, g_running, now, dev>>
         [] Top.pc = 317 -> CallPanel(F_ili9481_power_off, Goto(319))
         [] Top.pc = 319 -> Skip(Goto(321))
         [] Top.pc = 321 ->
                IF Top.fb THEN Cleanup("fb_provider_destroy", Goto(323))
                ELSE Skip(Goto(323))
         [] Top.pc = 323 ->
                Cleanup("gpio_bus_close", Call(F_gpio_bus_close(Top.bus), 326))
         [] Top.pc = 326 -> Skip(Return)


main ==
    /\ Running("main")
    /\ CASE Top.pc = 234 -> Skip(Goto(241)) \/ Skip(Goto(321))
         [] Top.pc = 241 ->
                IF Top.cfg.rotation \in {90, 270}
                THEN MainStep([Top EXCEPT !.disp_w = ILI9481_HEIGHT,
                                          !.disp_h = ILI9481_WIDTH, !.pc = 244])
                ELSE MainStep([Top EXCEPT !.disp_w = ILI9481_WIDTH,
                                          !.disp_h = ILI9481_HEIGHT, !.pc = 244])
         [] Top.pc = 244 -> Skip(Call(F_gpio_bus_open, 245))
         [] Top.pc = 245 -> IF Top.bus THEN Skip(Goto(251)) ELSE Skip(Goto(321))
         [] Top.pc = 251 -> CallPanel(F_ili9481_init(Top.cfg.rotation), Goto(254))
         [] Top.pc = 254 ->
                IF Top.cfg.benchmark
                THEN Skip(Call(F_run_benchmark(Top.disp_w, Top.disp_h), 321))
                ELSE Skip(Goto(261))
         [] Top.pc = 261 ->
                IF Top.cfg.gpio_probe
                THEN Skip(Call(F_gpio_bus_probe(Top.bus), 321))
                ELSE Skip(Goto(268))
         [] Top.pc = 268 ->
                IF Top.cfg.test_pattern
                THEN Skip(Call(F_run_test_pattern(Top.disp_w, Top.disp_h), 321))
                ELSE Skip(Goto(275))
         [] Top.pc = 275 -> Skip(Call(F_fb_provider_init, 276))
         [] Top.pc = 276 -> IF Top.fb THEN Skip(Goto(282)) ELSE Skip(Goto(321))
         [] Top.pc = 282 -> MainStep([Top EXCEPT !.handlers = TRUE, !.pc = 289])
         [] Top.pc = 289 ->
                IF Top.cfg.enable_touch
                THEN \/ /\ stack' = <<[Top EXCEPT !.touch_tid = TRUE, !.pc = 305]>>
                                        \o Tail(stack)
                        /\ touch' = <<F_touch_thread_fn(Top.disp_w, Top.disp_h)>>
                        /\ UNCHANGED <<lev, cur, sinceDmb, log, handle, g_running, now, dev>>
                     \/ Skip(Goto(305))
                ELSE Skip(Goto(305))
         [] Top.pc = 305 -> Skip(Call(F_fb_flush_loop(Top.disp_w, Top.disp_h, Top.cfg.fps), 309))
         [] Top.pc = 309 -> IF Top.touch_tid THEN Skip(Goto(310)) ELSE Skip(Goto(317))
         [] Top.pc = 310 ->
                /\ touch # <<>> /\ Head(touch).pc = 214
                /\ touch' = NoThread
                /\ stack' = Goto(317)
                /\ UNCHANGED <<lev, cur, sinceDmb, log, handle, g_running, now, dev>>
         [] Top.pc = 317 -> CallPanel(F_ili9481_power_off, Goto(319))
         [] Top.pc = 319 -> Skip(Goto(321))
         [] Top.pc = 321 ->
                IF Top.fb THEN Cleanup("fb_provider_destroy", Goto(323))
                ELSE Skip(Goto(323))
         [] Top.pc = 323 ->
                IF Top.bus
                THEN Cleanup("gpio_bus_close", Call(F_gpio_bus_close(Top.bus), 326))
                ELSE Skip(Goto(326))
         [] Top.pc = 326 -> Skip(Return)

-----------------------------------------------------------------------------
(* src/fbcp.c: the SPI mirror *)

\* (px >> amount) & mask for uint32_t operands, mask being the bits lo..hi.
\* The amount is computed in uint32_t: a negative `amount` stands for the
\* wrapped amount + 2^32.  A shift by 32 or more is undefined; the builds
\* either shift by the amount modulo 32 or shift every bit out.
ShiftedBits(px, s, lo, hi) ==
    LET RECURSIVE Sum(_)
        Sum(k) == IF k > hi THEN 0 ELSE WordBit(px, s + k) * Pow2(k) + Sum(k + 1)
    IN  Sum(lo)

ShrAnd(px, amount, lo, hi) ==
    IF amount \in 0..31 THEN {ShiftedBits(px, amount, lo, hi)}
    ELSE {0, ShiftedBits(px, amount % 32, lo, hi)}

\* Lines 229..234: the values to565 may return
to565(px, ro, go, bo) ==
    {BitOr(BitOr(r, g, 16), b, 16) :
        r \in ShrAnd(px, ro + 8 - 5, 11, 15),
        g \in ShrAnd(px, go + 8 - 6 - 5, 5, 10),
        b \in ShrAnd(px, bo + 8 - 5 - 11, 0, 4)}

\* Lines 475..476 of main: one 32-bit source pixel into the frame sent
F_fbcp_convert32(px, ro, go, bo) ==
    [bo |-> bo, dr |-> 0, fn |-> "fbcp_convert32", go |-> go, pc |-> 475,
     px |-> px, ro |-> ro, v |-> 0]

fbcp_convert32 ==
    /\ Running("fbcp_convert32")
    /\ CASE Top.pc = 475 ->
                /\ \E v \in to565(Top.px, Top.ro, Top.go, Top.bo) :
                       stack' = <<[Top EXCEPT !.pc = 476, !.v = v]>> \o Tail(stack)
                /\ UNCHANGED <<lev, cur, sinceDmb, log, daemon>>
         [] Top.pc = 476 ->
                /\ cur' = [cur EXCEPT !.call =
                              [Top EXCEPT !.dr = (Top.v \div 256) + (Top.v % 256) * 256]]
                /\ stack' = Return
                /\ UNCHANGED <<lev, sinceDmb, log, daemon>>

-----------------------------------------------------------------------------
(* src/driver/ili9481-gpio.c: the kernel framebuffer driver *)

\* The driver reaches its lines through gpiod descriptors.  The levels of
\* /RST, DC and /WR are kept in lev under the pin numbers of the userspace
\* wiring; the value on DB0..DB15 is the val of the running ili9481_write16.
\* /RST and /WR are active low: logical 1 drives the pin low (lines 58..62,
\* 109, 111).  The panel sees an edge of RST or DC when its level changes and
\* latches the 16 data lines on the rising edge of /WR.
Par(width, height, rotate, rst_gpio) ==
    [height |-> height, rotate |-> rotate, rst_gpio |-> rst_gpio, width |-> width]

\* the lines after probe: every line was requested with GPIOD_OUT_LOW
ProbedLevels == wr_mask \cup rst_mask

\* what the panel sees when the driver's lines change from old to new with
\* `data` on DB0..DB15
DriverSees(old, new, data) ==
    Edge(old, new, GPIO_RST, "rst") \o Edge(old, new, GPIO_DC, "dc")
        \o (IF GPIO_WR \notin old /\ GPIO_WR \in new
            THEN <<[dc |-> Level(old, GPIO_DC), k |-> "wr", v |-> data]>>
            ELSE <<>>)

\* gpiod_set_value(line, value) of an active-low or active-high line
gpiod_set_value(pin, active_low, value, data, next) ==
    LET level == IF active_low THEN 1 - value ELSE value
        new   == IF level = 1 THEN lev \cup {pin} ELSE lev \ {pin}
    IN  /\ lev' = new
        /\ log' = Record(log, DriverSees(lev, new, data))
        /\ stack' = next
        /\ UNCHANGED <<cur, sinceDmb, daemon>>

\* msleep(ms) sleeps at least ms milliseconds
msleep(ms, next) == Usleep(ms * 1000, next)

U16(x) == x % 65536

F_ili9481_write16(val) == [fn |-> "ili9481_write16", pc |-> 68, val |-> U16(val)]

ili9481_write16 ==
    /\ Running("ili9481_write16")
    /\ CASE Top.pc = 68 -> Skip(Goto(75))
         [] Top.pc = 75 -> gpiod_set_value(GPIO_WR, TRUE, 1, Top.val, Goto(77))
         [] Top.pc = 77 -> gpiod_set_value(GPIO_WR, TRUE, 0, Top.val, Return)

F_ili9481_write_cmd(cmd) == [cmd |-> U8(cmd), fn |-> "ili9481_write_cmd", pc |-> 83]

ili9481_write_cmd ==
    /\ Running("ili9481_write_cmd")
    /\ CASE Top.pc = 83 -> gpiod_set_value(GPIO_DC, FALSE, 0, 0, Goto(84))
         [] Top.pc = 84 -> Skip(Call(F_ili9481_write16(Top.cmd), 85))
         [] Top.pc = 85 -> gpiod_set_value(GPIO_DC, FALSE, 1, 0, Return)

F_ili9481_write_data(data) == [data |-> U8(data), fn |-> "ili9481_write_data", pc |-> 91]

ili9481_write_data ==
    /\ Running("ili9481_write_data")
    /\ Top.pc = 91
    /\ Skip(TailCall(F_ili9481_write16(Top.data)))

F_ili9481_write_pixel(pixel) ==
    [fn |-> "ili9481_write_pixel", pc |-> 97, pixel |-> U16(pixel)]

\* ili9481_write_pixel that puts only the low byte of the pixel on the bus
ili9481_write_pixel_low_byte ==
    /\ Running("ili9481_write_pixel")
    /\ Top.pc = 97
    /\ Skip(TailCall(F_ili9481_write16(U8(Top.pixel))))

ili9481_write_pixel ==
    /\ Running("ili9481_write_pixel")
    /\ Top.pc = 97
    /\ Skip(TailCall(F_ili9481_write16(Top.pixel)))

F_ili9481_hw_reset(par) == [fn |-> "ili9481_hw_reset", par |-> par, pc |-> 106]

ili9481_hw_reset ==
    /\ Running("ili9481_hw_reset")
    /\ CASE Top.pc = 106 ->
                IF ~Top.par.rst_gpio THEN Skip(Return) ELSE Skip(Goto(109))
         [] Top.pc = 109 -> gpiod_set_value(GPIO_RST, TRUE, 1, 0, Goto(110))
         [] Top.pc = 110 -> msleep(20, Goto(111))
         [] Top.pc = 111 -> gpiod_set_value(GPIO_RST, TRUE, 0, 0, Goto(112))
         [] Top.pc = 112 -> msleep(20, Return)

\* src/driver/ili9481-gpio.h: the init table of the kernel driver
ili9481_gpio_init_cmds == <<
    RegCmd(ILI9481_SWRESET,  0, <<>>, 50),
    RegCmd(ILI9481_SLPOUT,   0, <<>>, 20),
    RegCmd(ILI9481_PWRSET,   3, <<7, 66, 24>>, 0),
    RegCmd(ILI9481_VMCTR,    3, <<0, 7, 16>>, 0),
    RegCmd(ILI9481_PWRNORM,  2, <<1, 2>>, 0),
    RegCmd(ILI9481_PANELDRV, 5, <<16, 59, 0, 2, 17>>, 0),
    RegCmd(ILI9481_FRMCTR,   1, <<3>>, 0),
    RegCmd(ILI9481_GAMMASET, 12, <<0, 50, 54, 69, 6, 22, 55, 117, 119, 84, 12, 0>>, 0),
    RegCmd(ILI9481_COLMOD,   1, <<ILI9481_COLMOD_16BIT>>, 0),
    RegCmd(ILI9481_DISPON,   0, <<>>, 25) >>

F_ili9481_init_display(par) ==
    [fn |-> "ili9481_init_display", i |-> 0, j |-> 0, par |-> par, pc |-> 119]

\* ili9481_madctl_for_rotate of the driver's header is the function of the
\* same name of include/ili9481_hw.h
ili9481_init_display ==
    /\ Running("ili9481_init_display")
    /\ LET c == ili9481_gpio_init_cmds[Top.i + 1]
           NextCmd == <<[Top EXCEPT !.pc = 121, !.i = Top.i + 1]>> \o Tail(stack)
       IN  CASE Top.pc = 119 -> Skip(Call(F_ili9481_hw_reset(Top.par), 121))
             [] Top.pc = 121 ->
                    IF Top.i < Len(ili9481_gpio_init_cmds)
                    THEN Skip(Goto(124)) ELSE Skip(Goto(132))
             [] Top.pc = 124 ->
                    Skip(<<F_ili9481_write_cmd(c.cmd), [Top EXCEPT !.pc = 125, !.j = 0]>>
                         \o Tail(stack))
             [] Top.pc = 125 ->
                    IF Top.j < c.len THEN Skip(Goto(126)) ELSE Skip(Goto(127))
             [] Top.pc = 126 ->
                    Skip(<<F_ili9481_write_data(c.data[Top.j + 1]),
                           [Top EXCEPT !.pc = 125, !.j = Top.j + 1]>> \o Tail(stack))
             [] Top.pc = 127 ->
                    IF c.delay_ms # 0 THEN Skip(Goto(128)) ELSE Skip(NextCmd)
             [] Top.pc = 128 -> msleep(c.delay_ms, NextCmd)
             [] Top.pc = 132 -> Skip(Call(F_ili9481_write_cmd(ILI9481_MADCTL), 133))
             [] Top.pc = 133 ->
                    Skip(TailCall(F_ili9481_write_data(
                        ili9481_madctl_for_rotate(Top.par.rotate))))

F_ili9481_flush(par, vmem) ==
    [fn |-> "ili9481_flush", i |-> 0, npixels |-> 0, par |-> par, pc |-> 148,
     vmem |-> vmem]

ili9481_flush ==
    /\ Running("ili9481_flush")
    /\ LET w == Top.par.width
           h == Top.par.height
       IN  CASE Top.pc = 148 -> Skip(Call(F_ili9481_write_cmd(ILI9481_CASET), 149))
             [] Top.pc = 149 -> Skip(Call(F_ili9481_write_data(0), 150))
             [] Top.pc = 150 -> Skip(Call(F_ili9481_write_data(0), 151))
             [] Top.pc = 151 -> Skip(Call(F_ili9481_write_data((w - 1) \div 256), 152))
             [] Top.pc = 152 -> Skip(Call(F_ili9481_write_data((w - 1) % 256), 155))
             [] Top.pc = 155 -> Skip(Call(F_ili9481_write_cmd(ILI9481_PASET), 156))
             [] Top.pc = 156 -> Skip(Call(F_ili9481_write_data(0), 157))
             [] Top.pc = 157 -> Skip(Call(F_ili9481_write_data(0), 158))
             [] Top.pc = 158 -> Skip(Call(F_ili9481_write_data((h - 1) \div 256), 159))
             [] Top.pc = 159 -> Skip(Call(F_ili9481_write_data((h - 1) % 256), 162))
             [] Top.pc = 162 -> Skip(Call(F_ili9481_write_cmd(ILI9481_RAMWR), 164))
             [] Top.pc = 164 ->
                    Skip(<<[Top EXCEPT !.pc = 165, !.npixels = w * h]>> \o Tail(stack))
             [] Top.pc = 165 ->
                    IF Top.i < Top.npixels THEN Skip(Goto(166)) ELSE Skip(Return)
             [] Top.pc = 166 ->
                    Skip(<<F_ili9481_write_pixel(PixelAt(Top.vmem, Top.i)),
                           [Top EXCEPT !.pc = 165, !.i = Top.i + 1]>> \o Tail(stack))

F_ili9481_remove(par) == [fn |-> "ili9481_remove", par |-> par, pc |-> 441]

\* Lines 436..450.  unregister_framebuffer and fb_deferred_io_cleanup end the
\* deferred-IO callback: no flush runs from line 441 on.
ili9481_remove ==
    /\ Running("ili9481_remove")
    /\ CASE Top.pc = 441 -> Skip(Goto(445))
         [] Top.pc = 445 -> Skip(Call(F_ili9481_write_cmd(ILI9481_DISPOFF), 446))
         [] Top.pc = 446 -> Skip(Call(F_ili9481_write_cmd(ILI9481_SLPIN), 448))
         [] Top.pc = 448 -> Skip(Return)

\* ---- src/fbcp.c: the panel protocol over SPI ----
DISPLAY_W == 480
DISPLAY_H == 320
SPI_CHUNK == 4096

\* a byte on the SPI wire together with the level of DC while it is sent
EvSpi(dc, v) == [dc |-> dc, k |-> "spi", v |-> v]

\* gpio_set(fd, v) for the DC line
gpio_set(pin, v, next) ==
    /\ lev' = IF v # 0 THEN lev \cup {pin} ELSE lev \ {pin}
    /\ stack' = next
    /\ UNCHANGED <<cur, sinceDmb, log, daemon>>

\* spi_tx(buf, len): the bytes of buf go out in order
spi_tx(buf, next) ==
    /\ log' = JoinRuns(log, Runs([n \in 1..Len(buf) |-> EvSpi(Level(lev, GPIO_DC), buf[n])]))
    /\ stack' = next
    /\ UNCHANGED <<lev, cur, sinceDmb, daemon>>

F_lcd_cmd(c) == [buf |-> <<>>, c |-> U8(c), fn |-> "lcd_cmd", pc |-> 107]

lcd_cmd ==
    /\ Running("lcd_cmd")
    /\ CASE Top.pc = 107 ->
                Skip(<<[Top EXCEPT !.pc = 108, !.buf = <<0, Top.c>>]>> \o Tail(stack))
         [] Top.pc = 108 -> gpio_set(GPIO_DC, 0, Goto(109))
         [] Top.pc = 109 -> spi_tx(Top.buf, Return)

\* d is the array the pointer d points into and at the index of *d in it
F_lcd_data16(d, n) ==
    [at |-> 0, batch |-> 0, buf |-> <<>>, d |-> d, fn |-> "lcd_data16", n |-> n,
     pc |-> 116]

\* lcd_data16 that does not advance d after a batch
lcd_data16_same_batch ==
    /\ Running("lcd_data16")
    /\ CASE Top.pc = 116 -> gpio_set(GPIO_DC, 1, Goto(117))
         [] Top.pc = 117 -> IF Top.n > 0 THEN Skip(Goto(118)) ELSE Skip(Return)
         [] Top.pc = 118 ->
                Skip(<<[Top EXCEPT !.pc = 119, !.batch = IF Top.n > 64 THEN 64 ELSE Top.n]>>
                     \o Tail(stack))
         [] Top.pc = 119 ->
                Skip(<<[Top EXCEPT !.pc = 123,
                            !.buf = [b \in 1..(2 * Top.batch) |->
                                        IF b % 2 = 1 THEN 0
                                        ELSE Top.d[Top.at + (b \div 2)]]]>>
                     \o Tail(stack))
         [] Top.pc = 123 -> spi_tx(Top.buf, Goto(124))
         [] Top.pc = 124 ->
                Skip(<<[Top EXCEPT !.pc = 117, !.n = Top.n - Top.batch]>> \o Tail(stack))

lcd_data16 ==
    /\ Running("lcd_data16")
    /\ CASE Top.pc = 116 -> gpio_set(GPIO_DC, 1, Goto(117))
         [] Top.pc = 117 -> IF Top.n > 0 THEN Skip(Goto(118)) ELSE Skip(Return)
         [] Top.pc = 118 ->
                Skip(<<[Top EXCEPT !.pc = 119, !.batch = IF Top.n > 64 THEN 64 ELSE Top.n]>>
                     \o Tail(stack))
         [] Top.pc = 119 ->
                Skip(<<[Top EXCEPT !.pc = 123,
                            !.buf = [b \in 1..(2 * Top.batch) |->
                                        IF b % 2 = 1 THEN 0
                                        ELSE Top.d[Top.at + (b \div 2)]]]>>
                     \o Tail(stack))
         [] Top.pc = 123 -> spi_tx(Top.buf, Goto(124))
         [] Top.pc = 124 ->
                Skip(<<[Top EXCEPT !.pc = 117, !.at = Top.at + Top.batch,
                            !.n = Top.n - Top.batch]>> \o Tail(stack))

F_lcd_d8(v) == [fn |-> "lcd_d8", pc |-> 129, v |-> U8(v)]

lcd_d8 ==
    /\ Running("lcd_d8")
    /\ Top.pc = 129
    /\ Skip(TailCall(F_lcd_data16(<<Top.v>>, 1)))

F_lcd_set_window(x0, y0, x1, y1) ==
    [fn |-> "lcd_set_window", pc |-> 176, x0 |-> U16(x0), x1 |-> U16(x1),
     y0 |-> U16(y0), y1 |-> U16(y1)]

lcd_set_window ==
    /\ Running("lcd_set_window")
    /\ CASE Top.pc = 176 -> Skip(Call(F_lcd_cmd(42), 177))
         [] Top.pc = 177 ->
                Skip(Call(F_lcd_data16(<<U8(Top.x0 \div 256), Top.x0 % 256,
                                         U8(Top.x1 \div 256), Top.x1 % 256>>, 4), 178))
         [] Top.pc = 178 -> Skip(Call(F_lcd_cmd(43), 179))
         [] Top.pc = 179 ->
                Skip(TailCall(F_lcd_data16(<<U8(Top.y0 \div 256), Top.y0 % 256,
                                             U8(Top.y1 \div 256), Top.y1 % 256>>, 4)))

F_lcd_fill(color) ==
    [color |-> U16(color), fn |-> "lcd_fill", pc |-> 185, row |-> <<>>, y |-> 0]

lcd_fill ==
    /\ Running("lcd_fill")
    /\ CASE Top.pc = 185 ->
                Skip(Call(F_lcd_set_window(0, 0, DISPLAY_W - 1, DISPLAY_H - 1), 186))
         [] Top.pc = 186 -> Skip(Call(F_lcd_cmd(44), 188))
         [] Top.pc = 188 ->
                Skip(<<[Top EXCEPT !.pc = 194,
                            !.row = [b \in 1..(DISPLAY_W * 2) |->
                                        IF b % 2 = 1 THEN U8(Top.color \div 256)
                                        ELSE U8(Top.color % 256)]]>> \o Tail(stack))
         [] Top.pc = 194 -> gpio_set(GPIO_DC, 1, Goto(195))
         [] Top.pc = 195 ->
                IF Top.y < DISPLAY_H THEN Skip(Goto(196)) ELSE Skip(Return)
         [] Top.pc = 196 ->
                spi_tx(Top.row, <<[Top EXCEPT !.pc = 195, !.y = Top.y + 1]>> \o Tail(stack))

\* byte b of the memory of a buffer of uint16_t, the low byte of a value first
ByteOf(pixels, b) ==
    LET px == PixelAt(pixels, b \div 2)
    IN  IF b % 2 = 0 THEN px % 256 ELSE px \div 256

F_lcd_push(buf, npx) ==
    [buf |-> buf, c |-> 0, fn |-> "lcd_push", npx |-> npx, p |-> 0, pc |-> 201,
     rem |-> 0]

lcd_push ==
    /\ Running("lcd_push")
    /\ CASE Top.pc = 201 ->
                Skip(Call(F_lcd_set_window(0, 0, DISPLAY_W - 1, DISPLAY_H - 1), 202))
         [] Top.pc = 202 -> Skip(Call(F_lcd_cmd(44), 203))
         [] Top.pc = 203 -> gpio_set(GPIO_DC, 1, Goto(204))
         [] Top.pc = 204 ->
                Skip(<<[Top EXCEPT !.pc = 206, !.p = 0, !.rem = Top.npx * 2]>>
                     \o Tail(stack))
         [] Top.pc = 206 -> IF Top.rem # 0 THEN Skip(Goto(207)) ELSE Skip(Return)
         [] Top.pc = 207 ->
                Skip(<<[Top EXCEPT !.pc = 208,
                            !.c = IF Top.rem > SPI_CHUNK THEN SPI_CHUNK ELSE Top.rem]>>
                     \o Tail(stack))
         [] Top.pc = 208 ->
                spi_tx([n \in 1..Top.c |-> ByteOf(Top.buf, Top.p + n - 1)], Goto(209))
         [] Top.pc = 209 ->
                Skip(<<[Top EXCEPT !.pc = 206, !.p = Top.p + Top.c,
                            !.rem = Top.rem - Top.c]>> \o Tail(stack))

-----------------------------------------------------------------------------
(* The thread that uses the touch devices: execution of one statement *)

TTop == Head(touch)

TGoto(pc) == <<[TTop EXCEPT !.pc = pc]>> \o Tail(touch)
TReturn   == Tail(touch)
TCall(frame, retpc) == <<frame>> \o TGoto(retpc)

TRunning(fn) == touch # <<>> /\ TTop.fn = fn

\* a statement that changes neither a pin nor a device
TSkip(next) ==
    /\ touch' = next
    /\ UNCHANGED <<lev, stack, cur, sinceDmb, log, handle, g_running, now, dev>>

\* usleep(us) in this thread: nothing records how long the wait lasted, so a
\* wait that a signal cuts short and a full wait are the same step
TUsleep(us, next) == us > 0 /\ TSkip(next)

\* the caller of the running call, with `field` set to v; <<>> for a call
\* that nothing in the thread made
TCaller(field, v) ==
    IF Len(touch) > 1
    THEN <<[touch[2] EXCEPT ![field] = v]>> \o SubSeq(touch, 3, Len(touch))
    ELSE <<>>

-----------------------------------------------------------------------------
(* src/touch/uinput_touch.c *)

\* an input event written to the uinput device, or an ioctl that creates or
\* destroys it
EvInput(type, code, value) == [c |-> code, k |-> "input", type |-> type, v |-> value]

\* emit(ut->fd, type, code, value), and the ioctls on ut->fd
emit(type, code, value, next) ==
    /\ dev' = [dev EXCEPT !.io = Record(@, <<EvInput(type, code, value)>>)]
    /\ touch' = next
    /\ UNCHANGED <<lev, stack, cur, sinceDmb, log, handle, g_running, now>>

\* an assignment to fields of *ut
SetUt(ut, next) ==
    /\ dev' = [dev EXCEPT !.ut = ut]
    /\ touch' = next
    /\ UNCHANGED <<lev, stack, cur, sinceDmb, log, handle, g_running, now>>

F_uinput_touch_create(max_x, max_y) ==
    [fn |-> "uinput_touch_create", max_x |-> max_x, max_y |-> max_y, pc |-> 62]

\* Lines 60..157.  calloc, open and the two ioctls that create the device
\* succeed or fail; the ioctls of lines 74..125 describe the axes to the
\* kernel and their results are not looked at.  The value returned is whether
\* the pointer is non-null.
uinput_touch_create ==
    /\ TRunning("uinput_touch_create")
    /\ CASE TTop.pc = 62 -> TSkip(TGoto(66)) \/ TSkip(TCaller("ut", FALSE))
         [] TTop.pc = 66 -> TSkip(TGoto(138)) \/ TSkip(TGoto(69))
         [] TTop.pc = 69 -> TSkip(TCaller("ut", FALSE))
         [] TTop.pc = 138 ->
                \/ /\ dev' = [dev EXCEPT
                                 !.io = Record(@, <<EvInput("ioctl", "UI_DEV_CREATE", 0)>>),
                                 !.ut = [alive |-> TRUE, last_x |-> 0, last_y |-> 0,
                                         max_x |-> 0, max_y |-> 0, was_down |-> 0]]
                   /\ touch' = TGoto(147)
                   /\ UNCHANGED <<lev, stack, cur, sinceDmb, log, handle, g_running, now>>
                \/ TSkip(TGoto(141))
         [] TTop.pc = 141 -> TSkip(TCaller("ut", FALSE))
         [] TTop.pc = 147 -> TUsleep(200000, TGoto(149))
         [] TTop.pc = 149 ->
                SetUt([dev.ut EXCEPT !.was_down = 0, !.last_x = 0, !.last_y = 0,
                                     !.max_x = TTop.max_x, !.max_y = TTop.max_y],
                      TGoto(156))
         [] TTop.pc = 156 -> TSkip(TCaller("ut", TRUE))

\* ut is FALSE for a null pointer
F_uinput_touch_report(ut, down, x, y) ==
    [down |-> down, fn |-> "uinput_touch_report", pc |-> 161, ut |-> ut, x |-> x, y |-> y]

\* uinput_touch_report that sends BTN_TOUCH 1 with every pen-down report
uinput_touch_report_press_again ==
    /\ TRunning("uinput_touch_report")
    /\ CASE TTop.pc = 161 -> IF ~TTop.ut THEN TSkip(TReturn) ELSE TSkip(TGoto(164))
         [] TTop.pc = 164 -> IF TTop.down # 0 THEN TSkip(TGoto(166)) ELSE TSkip(TGoto(178))
         [] TTop.pc = 166 -> emit("EV_ABS", "ABS_X", TTop.x, TGoto(167))
         [] TTop.pc = 167 -> emit("EV_ABS", "ABS_Y", TTop.y, TGoto(168))
         [] TTop.pc = 168 -> emit("EV_ABS", "ABS_PRESSURE", 200, TGoto(169))
         [] TTop.pc = 169 ->
                SetUt([dev.ut EXCEPT !.last_x = TTop.x, !.last_y = TTop.y], TGoto(172))
         [] TTop.pc = 172 -> TSkip(TGoto(174))
         [] TTop.pc = 174 -> emit("EV_KEY", "BTN_TOUCH", 1, TGoto(175))
         [] TTop.pc = 175 -> SetUt([dev.ut EXCEPT !.was_down = 1], TGoto(189))
         [] TTop.pc = 178 ->
                IF dev.ut.was_down # 0 THEN TSkip(TGoto(180)) ELSE TSkip(TReturn)
         [] TTop.pc = 180 -> emit("EV_ABS", "ABS_PRESSURE", 0, TGoto(181))
         [] TTop.pc = 181 -> emit("EV_KEY", "BTN_TOUCH", 0, TGoto(182))
         [] TTop.pc = 182 -> SetUt([dev.ut EXCEPT !.was_down = 0], TGoto(189))
         [] TTop.pc = 189 -> emit("EV_SYN", "SYN_REPORT", 0, TReturn)

uinput_touch_report ==
    /\ TRunning("uinput_touch_report")
    /\ CASE TTop.pc = 161 -> IF ~TTop.ut THEN TSkip(TReturn) ELSE TSkip(TGoto(164))
         [] TTop.pc = 164 -> IF TTop.down # 0 THEN TSkip(TGoto(166)) ELSE TSkip(TGoto(178))
         [] TTop.pc = 166 -> emit("EV_ABS", "ABS_X", TTop.x, TGoto(167))
         [] TTop.pc = 167 -> emit("EV_ABS", "ABS_Y", TTop.y, TGoto(168))
         [] TTop.pc = 168 -> emit("EV_ABS", "ABS_PRESSURE", 200, TGoto(169))
         [] TTop.pc = 169 ->
                SetUt([dev.ut EXCEPT !.last_x = TTop.x, !.last_y = TTop.y], TGoto(172))
         [] TTop.pc = 172 ->
                IF dev.ut.was_down = 0 THEN TSkip(TGoto(174)) ELSE TSkip(TGoto(189))
         [] TTop.pc = 174 -> emit("EV_KEY", "BTN_TOUCH", 1, TGoto(175))
         [] TTop.pc = 175 -> SetUt([dev.ut EXCEPT !.was_down = 1], TGoto(189))
         [] TTop.pc = 178 ->
                IF dev.ut.was_down # 0 THEN TSkip(TGoto(180)) ELSE TSkip(TReturn)
         [] TTop.pc = 180 -> emit("EV_ABS", "ABS_PRESSURE", 0, TGoto(181))
         [] TTop.pc = 181 -> emit("EV_KEY", "BTN_TOUCH", 0, TGoto(182))
         [] TTop.pc = 182 -> SetUt([dev.ut EXCEPT !.was_down = 0], TGoto(189))
         [] TTop.pc = 189 -> emit("EV_SYN", "SYN_REPORT", 0, TReturn)

F_uinput_touch_destroy(ut) == [fn |-> "uinput_touch_destroy", pc |-> 194, ut |-> ut]

uinput_touch_destroy ==
    /\ TRunning("uinput_touch_destroy")
    /\ CASE TTop.pc = 194 -> IF ~TTop.ut THEN TSkip(TReturn) ELSE TSkip(TGoto(198))
         [] TTop.pc = 198 ->
                IF dev.ut.was_down # 0 THEN TSkip(TGoto(199)) ELSE TSkip(TGoto(204))
         [] TTop.pc = 199 -> emit("EV_ABS", "ABS_PRESSURE", 0, TGoto(200))
         [] TTop.pc = 200 -> emit("EV_KEY", "BTN_TOUCH", 0, TGoto(201))
         [] TTop.pc = 201 -> emit("EV_SYN", "SYN_REPORT", 0, TGoto(204))
         [] TTop.pc = 204 -> emit("ioctl", "UI_DEV_DESTROY", 0, TGoto(205))
         [] TTop.pc = 205 -> SetUt([dev.ut EXCEPT !.alive = FALSE], TReturn)

-----------------------------------------------------------------------------
(* src/touch/xpt2046.c *)

XPT_CMD_X  == 208
XPT_CMD_Y  == 144
XPT_CMD_Z1 == 176
XPT_CMD_Z2 == 192

PRESSURE_MIN   == 100
MEDIAN_SAMPLES == 7
SETTLE_READS   == 2
DEBOUNCE_COUNT == 2
JUMP_THRESHOLD == 300

\* ---- float ----
\* A float is kept as its 32 bits (IEEE 754 binary32) read as a number:
\* 0 is 0.0f and e * 2^23 + f with 0 < e < 255 is (2^23 + f) * 2^(e - 150).
\* The floats of xpt2046_read are zero or positive and neither subnormal nor
\* infinite.  Every operation rounds its exact result to the nearest float,
\* ties to the even one.
FExp(a)  == a \div Pow2(23)
FMant(a) == Pow2(23) + (a % Pow2(23))

\* the float m * 2^(e - 150) for a mantissa m of 24 bits
FPack(m, e) == e * Pow2(23) + (m - Pow2(23))

\* m * 2^(e - 150) plus a fraction of the last place that is rem / (2 * half)
FRound(m, rem, half, e) ==
    LET n == IF rem > half \/ (rem = half /\ m % 2 = 1) THEN m + 1 ELSE m
    IN  IF n = Pow2(24) THEN FPack(Pow2(23), e + 1) ELSE FPack(n, e)

\* v >> d with the bits shifted out gathered into the lowest bit
ShiftSticky(v, d) ==
    IF d >= 30 THEN (IF v # 0 THEN 1 ELSE 0)
    ELSE LET q == v \div Pow2(d)
         IN  IF v % Pow2(d) # 0 /\ q % 2 = 0 THEN q + 1 ELSE q

\* m * 2^(e - 150) with m brought to `bits` bits
RECURSIVE FNormal(_, _, _)
FNormal(m, e, bits) ==
    IF m >= Pow2(bits - 1) THEN <<m, e>> ELSE FNormal(2 * m, e - 1, bits)

\* (float)n for 0 <= n < 2^24
Float(n) ==
    IF n = 0 THEN 0
    ELSE LET t == FNormal(n, 150, 24) IN FPack(t[1], t[2])

\* (int)a
FInt(a) ==
    LET e == FExp(a) - 150
    IN  IF a = 0 \/ e < -24 THEN 0
        ELSE IF e >= 0 THEN FMant(a) * Pow2(e)
        ELSE FMant(a) \div Pow2(-e)

\* a * b: the 48-bit product of the mantissas is H * 2^24 + L
FMul(a, b) ==
    IF a = 0 \/ b = 0 THEN 0
    ELSE LET a1  == FMant(a) \div 4096
             a0  == FMant(a) % 4096
             b1  == FMant(b) \div 4096
             b0  == FMant(b) % 4096
             mid == a1 * b0 + a0 * b1
             low == (mid % 4096) * 4096 + a0 * b0
             L   == low % Pow2(24)
             H   == a1 * b1 + mid \div 4096 + low \div Pow2(24)
             e   == FExp(a) + FExp(b) - 127
         IN  IF H >= Pow2(23) THEN FRound(H, L, Pow2(23), e + 1)
             ELSE FRound(2 * H + L \div Pow2(23), L % Pow2(23), Pow2(22), e)

\* a + b, with three more bits below the mantissas
FAdd(a, b) ==
    IF a = 0 THEN b
    ELSE IF b = 0 THEN a
    ELSE LET x == IF a >= b THEN a ELSE b
             y == IF a >= b THEN b ELSE a
             S == FMant(x) * 8 + ShiftSticky(FMant(y) * 8, FExp(x) - FExp(y))
             T == IF S >= Pow2(27) THEN ShiftSticky(S, 1) ELSE S
             e == IF S >= Pow2(27) THEN FExp(x) + 1 ELSE FExp(x)
         IN  FRound(T \div 8, T % 8, 4, e)

\* a - b for a >= b
FSub(a, b) ==
    IF b = 0 \/ a = b THEN (IF b = 0 THEN a ELSE 0)
    ELSE LET D == FMant(a) * 8 - ShiftSticky(FMant(b) * 8, FExp(a) - FExp(b))
             t == FNormal(D, FExp(a), 27)
         IN  FRound(t[1] \div 8, t[1] % 8, 4, t[2])

\* bit k of the 48-bit product H * 2^24 + L
ProductBit(H, L, k) ==
    IF k < 0 \/ k > 47 THEN 0 ELSE IF k < 24 THEN BitOf(L, k) ELSE BitOf(H, k - 24)

\* the bits of x + y from bit k on, for numbers of 76 bits given bit by bit
RECURSIVE SumBits(_, _, _, _)
SumBits(x, y, k, carry) ==
    IF k > 75 THEN <<>>
    ELSE LET s == x[k] + y[k] + carry
         IN  <<s % 2>> \o SumBits(x, y, k + 1, s \div 2)

\* the number whose bits lo..hi are those of the sequence S (bit k is S[k + 1])
RECURSIVE BitsValue(_, _, _)
BitsValue(S, lo, hi) ==
    IF hi < lo THEN 0 ELSE S[lo + 1] + 2 * BitsValue(S, lo + 1, hi)

\* fmaf(a, b, c): a * b + c exactly, rounded once.  The product of the
\* mantissas and the mantissa of c are laid out bit by bit over a common last
\* place and added; the 24 bits from the highest one on are the mantissa, the
\* next bit and the bits below decide the rounding.  A c whose bits all lie
\* below the last bit of the product counts as one bit below it, and a
\* product whose bits all lie below half the last place of c leaves c.
FFma(a, b, c) ==
    IF a = 0 \/ b = 0 THEN c
    ELSE IF c = 0 THEN FMul(a, b)
    ELSE LET a1  == FMant(a) \div 4096
             a0  == FMant(a) % 4096
             b1  == FMant(b) \div 4096
             b0  == FMant(b) % 4096
             mid == a1 * b0 + a0 * b1
             low == (mid % 4096) * 4096 + a0 * b0
             L   == low % Pow2(24)
             H   == a1 * b1 + mid \div 4096 + low \div Pow2(24)
             d   == (FExp(c) - 150) - (FExp(a) + FExp(b) - 300)
             sp  == IF d >= 0 THEN 0 ELSE IF d > -27 THEN -d ELSE 2
             x   == [k \in 0..75 |-> ProductBit(H, L, k - sp)]
             sc  == IF d > 0 THEN d ELSE 0
             y   == [k \in 0..75 |->
                        IF d <= -27 THEN (IF k = 0 THEN 1 ELSE 0)
                        ELSE IF k < sc \/ k > sc + 23 THEN 0
                        ELSE BitOf(FMant(c), k - sc)]
             S   == SumBits(x, y, 0, 0)
             t   == CHOOSE k \in 0..75 : S[k + 1] = 1 /\ \A j \in (k + 1)..75 : S[j + 1] = 0
             rem == 2 * S[t - 23] + (IF \E j \in 0..(t - 25) : S[j + 1] = 1 THEN 1 ELSE 0)
         IN  IF d >= 50 THEN c
             ELSE FRound(BitsValue(S, t - 23, t), rem, 2,
                         FExp(a) + FExp(b) - 150 - sp + t - 23)

\* a / 2^k
FDivPow2(a, k) == IF a = 0 THEN 0 ELSE a - k * Pow2(23)

\* 0.85f and 0.40f: the floats 0x3F59999A and 0x3ECCCCCD
EWMA_ALPHA_INITIAL == 1062836634
EWMA_ALPHA         == 1053609165
EWMA_LOCK_SAMPLES  == 3

\* What a build makes of a * b + c * d.  Without contraction both products
\* and the sum are rounded ("separate").  A compiler that contracts (GCC where
\* the target has a fused multiply-add, as on AArch64) rounds one of the
\* products and adds the other to it exactly, with one rounding of the sum:
\* fmaf(a, b, c * d) ("first") or fmaf(c, d, a * b) ("second").
Contractions == {"separate", "first", "second"}

MulAdd(a, b, c, d, contract) ==
    CASE contract = "separate" -> FAdd(FMul(a, b), FMul(c, d))
      [] contract = "first"    -> FFma(a, b, FMul(c, d))
      [] contract = "second"   -> FFma(c, d, FMul(a, b))

\* Lines 249..250: alpha * raw + (1.0f - alpha) * filt
Ewma(alpha, raw, filt, contract) ==
    MulAdd(alpha, raw, FSub(Float(1), alpha), filt, contract)

\* struct touch_cal, its six coefficients floats
Cal(ax, bx, cx, ay, by, cy) ==
    [ax |-> ax, ay |-> ay, bx |-> bx, by |-> by, cx |-> cx, cy |-> cy]

\* service_main.c lines 187..190: the default calibration of the touch thread
DefaultCal(width, height) ==
    Cal(FDivPow2(Float(width), 12), 0, 0, 0, FDivPow2(Float(height), 12), 0)

\* Lines 255..256: (int)(a * filt_x + b * filt_y + c)
Calibrated(a, b, c, filt_x, filt_y, contract) ==
    FInt(FAdd(MulAdd(a, filt_x, b, filt_y, contract), c))

\* Lines 119..123: the middle element of the sorted array
median_of(arr, n) ==
    CHOOSE v \in {arr[i] : i \in 1..n} :
        /\ Cardinality({i \in 1..n : arr[i] < v}) <= n \div 2
        /\ Cardinality({i \in 1..n : arr[i] <= v}) > n \div 2

\* what the chip answers: pairs of z1 and z2, and the seven samples of a
\* position.  The two X positions are further apart than JUMP_THRESHOLD, so
\* that a move between them resets the filter; the two Y positions are closer,
\* so that the filter runs on between them.
Readings == {<<0, 0>>, <<1, 3997>>, <<1, 3996>>}
SamplesX ==
    { <<100, 101, 99, 4095, 0, 100, 102>>,
      <<2000, 2000, 1999, 2001, 0, 2000, 4095>> }
SamplesY ==
    { <<100, 101, 99, 4095, 0, 100, 102>>, <<177, 178, 176, 4095, 0, 177, 179>> }

\* the vectors of samples that begin with the samples taken so far
Begun(samples, taken) ==
    {s \in samples : \A n \in 1..Len(taken) : s[n] = taken[n]}

\* the 12-bit values the transfer of command cmd can bring to its caller c
ChipAnswers(c, cmd) ==
    CASE cmd = XPT_CMD_Z1 -> {z[1] : z \in Readings}
      [] cmd = XPT_CMD_Z2 -> {z[2] : z \in {r \in Readings : r[1] = c.z1}}
      [] c.pc \in {199, 200} -> {0}
      [] cmd = XPT_CMD_X -> {s[Len(c.samples_x) + 1] : s \in Begun(SamplesX, c.samples_x)}
      [] cmd = XPT_CMD_Y -> {s[Len(c.samples_y) + 1] : s \in Begun(SamplesY, c.samples_y)}

\* the caller c of spi_read_channel with the value returned where its
\* statement puts it: z1 and z2 of read_pressure (lines 131, 132), the samples
\* of lines 208 and 209; the settling reads of lines 198 and 199 are discarded
Received(c, v) ==
    CASE c.fn = "read_pressure" /\ c.pc = 132 -> [c EXCEPT !.z1 = v]
      [] c.fn = "read_pressure" /\ c.pc = 134 -> [c EXCEPT !.z2 = v]
      [] c.fn = "xpt2046_read" /\ c.pc = 209 -> [c EXCEPT !.samples_x = Append(@, v)]
      [] c.fn = "xpt2046_read" /\ c.pc = 210 -> [c EXCEPT !.samples_y = Append(@, v)]
      [] OTHER -> c

F_spi_read_channel(cmd) == [cmd |-> cmd, fn |-> "spi_read_channel", pc |-> 101]

\* A transfer that drove the lines of SPI0, pins 9, 10 and 11, which are the
\* data pins DB0, DB2 and DB1 of the panel: what line 101 would do if the
\* pins were routed to the SPI controller instead of being the outputs that
\* gpio_bus_open made them
spi_read_channel_drives_pins ==
    /\ TRunning("spi_read_channel")
    /\ TTop.pc = 101
    /\ \E v \in ChipAnswers(touch[2], TTop.cmd) :
           /\ \E s \in {{}, Spi0Pins} : lev' = (lev \ Spi0Pins) \cup s
           /\ touch' = <<Received(touch[2], v)>> \o SubSeq(touch, 3, Len(touch))
           /\ UNCHANGED <<stack, cur, sinceDmb, log, handle, g_running, now, dev>>

\* Lines 87..106: the transfer structure of lines 92..99 is built on the
\* thread's stack, line 101 issues one SPI_IOC_MESSAGE ioctl on ts->fd, and
\* line 105 decodes the 12 bits of rx[1] and rx[2]; an ioctl that fails
\* returns 0 (line 102), as a transfer that reads 0 does.  No statement
\* stores to a GPIO register or to anything the main thread holds: the value
\* returned is all the call leaves behind.
spi_read_channel ==
    /\ TRunning("spi_read_channel")
    /\ TTop.pc = 101
    /\ \E v \in ChipAnswers(touch[2], TTop.cmd) :
           /\ touch' = <<Received(touch[2], v)>> \o SubSeq(touch, 3, Len(touch))
           /\ UNCHANGED <<lev, stack, cur, sinceDmb, log, handle, g_running, now, dev>>

F_read_pressure == [fn |-> "read_pressure", pc |-> 131, z1 |-> 0, z2 |-> 0]

\* Lines 129..138; the value goes to pressure (line 181) or pressure2 (line 216)
\* of xpt2046_read
read_pressure ==
    /\ TRunning("read_pressure")
    /\ LET to == IF touch[2].pc = 183 THEN "pressure" ELSE "pressure2"
       IN  CASE TTop.pc = 131 -> TSkip(TCall(F_spi_read_channel(XPT_CMD_Z1), 132))
             [] TTop.pc = 132 -> TSkip(TCall(F_spi_read_channel(XPT_CMD_Z2), 134))
             [] TTop.pc = 134 ->
                    IF TTop.z1 = 0 THEN TSkip(TCaller(to, 0)) ELSE TSkip(TGoto(137))
             [] TTop.pc = 137 -> TSkip(TCaller(to, TTop.z1 - TTop.z2 + 4095))

\* one xpt2046_read of a device as its caller sees it: the value returned, and
\* whether every pressure it measured was at or above PRESSURE_MIN
EvRead(ok, ret) == [k |-> "read", ok |-> ok, v |-> ret]

\* return ret, with *x and *y as the call leaves them
ReturnRead(ok, ret) ==
    /\ dev' = [dev EXCEPT !.io = Record(@, <<EvRead(ok, ret)>>)]
    /\ touch' = IF Len(touch) > 1
                THEN <<[touch[2] EXCEPT !.down = ret, !.x = TTop.x, !.y = TTop.y]>>
                     \o SubSeq(touch, 3, Len(touch))
                ELSE <<>>
    /\ UNCHANGED <<lev, stack, cur, sinceDmb, log, handle, g_running, now>>

\* an assignment to fields of *ts
SetTs(ts, next) ==
    /\ dev' = [dev EXCEPT !.ts = ts]
    /\ touch' = next
    /\ UNCHANGED <<lev, stack, cur, sinceDmb, log, handle, g_running, now>>

\* a local variable of the running call gets a value
SetLocal(frame) == TSkip(<<frame>> \o Tail(touch))

\* ts is FALSE for a null pointer; x and y are *x and *y as the caller left
\* them
F_xpt2046_read(ts, cal, x, y) ==
    [cal |-> cal, fn |-> "xpt2046_read", i |-> 0, pc |-> 177, pressure |-> 0,
     pressure2 |-> 0, raw_x |-> 0, raw_y |-> 0, samples_x |-> <<>>,
     samples_y |-> <<>>, ts |-> ts, x |-> x, y |-> y]

\* xpt2046_read that discards one settling read fewer
xpt2046_read_short_settle ==
    /\ TRunning("xpt2046_read")
    /\ LET ts == dev.ts
           f  == TTop
           dx == FInt(f.raw_x) - FInt(ts.last_raw_x)
           dy == FInt(f.raw_y) - FInt(ts.last_raw_y)
           alpha == IF ts.sample_count < EWMA_LOCK_SAMPLES
                    THEN EWMA_ALPHA_INITIAL ELSE EWMA_ALPHA
       IN  CASE f.pc = 177 -> IF ~f.ts THEN TSkip(TCaller("down", 0)) ELSE TSkip(TGoto(181))
             [] f.pc = 181 -> TSkip(TCall(F_read_pressure, 183))
             [] f.pc = 183 ->
                    IF f.pressure < PRESSURE_MIN THEN TSkip(TGoto(184)) ELSE TSkip(TGoto(190))
             [] f.pc = 184 ->
                    SetTs([ts EXCEPT !.sample_count = 0, !.pen_down_count = 0], TGoto(186))
             [] f.pc = 186 -> ReturnRead(FALSE, 0)
             [] f.pc = 190 ->
                    SetTs([ts EXCEPT !.pen_down_count = ts.pen_down_count + 1], TGoto(191))
             [] f.pc = 191 ->
                    IF ts.pen_down_count < DEBOUNCE_COUNT
                    THEN ReturnRead(TRUE, 0) ELSE TSkip(TGoto(196))
             [] f.pc = 196 ->
                    IF ts.pen_down_count < DEBOUNCE_COUNT + SETTLE_READS
                    THEN TSkip(TGoto(198)) ELSE TSkip(TGoto(207))
             [] f.pc = 198 -> TSkip(TCall(F_spi_read_channel(XPT_CMD_X), 199))
             [] f.pc = 199 -> TSkip(TCall(F_spi_read_channel(XPT_CMD_Y), 200))
             [] f.pc = 200 -> ReturnRead(TRUE, 0)
             [] f.pc = 207 ->
                    IF f.i < MEDIAN_SAMPLES THEN TSkip(TGoto(208)) ELSE TSkip(TGoto(212))
             [] f.pc = 208 -> TSkip(TCall(F_spi_read_channel(XPT_CMD_X), 209))
             [] f.pc = 209 -> TSkip(TCall(F_spi_read_channel(XPT_CMD_Y), 210))
             [] f.pc = 210 -> SetLocal([f EXCEPT !.i = f.i + 1, !.pc = 207])
             [] f.pc = 212 ->
                    SetLocal([f EXCEPT !.pc = 216,
                                       !.raw_x = Float(median_of(f.samples_x, MEDIAN_SAMPLES)),
                                       !.raw_y = Float(median_of(f.samples_y, MEDIAN_SAMPLES))])
             [] f.pc = 216 -> TSkip(TCall(F_read_pressure, 217))
             [] f.pc = 217 ->
                    IF f.pressure2 < PRESSURE_MIN THEN TSkip(TGoto(218)) ELSE TSkip(TGoto(224))
             [] f.pc = 218 ->
                    SetTs([ts EXCEPT !.sample_count = 0, !.pen_down_count = 0], TGoto(220))
             [] f.pc = 220 -> ReturnRead(FALSE, 0)
             [] f.pc = 224 ->
                    IF ts.sample_count > 0
                       /\ dx * dx + dy * dy > JUMP_THRESHOLD * JUMP_THRESHOLD
                    THEN SetTs([ts EXCEPT !.sample_count = 0], TGoto(233))
                    ELSE TSkip(TGoto(233))
             [] f.pc = 233 ->
                    SetTs([ts EXCEPT !.last_raw_x = f.raw_x, !.last_raw_y = f.raw_y],
                          TGoto(237))
             [] f.pc = 237 ->
                    IF ts.sample_count = 0
                    THEN SetTs([ts EXCEPT !.filt_x = f.raw_x,
                                          !.filt_y = f.raw_y,
                                          !.sample_count = 1], TGoto(255))
                    ELSE TSkip(TGoto(244))
             [] f.pc = 244 ->
                    \E contract \in Contractions :
                        SetTs([ts EXCEPT
                                   !.filt_x = Ewma(alpha, f.raw_x, ts.filt_x, contract),
                                   !.filt_y = Ewma(alpha, f.raw_y, ts.filt_y, contract),
                                   !.sample_count = ts.sample_count + 1], TGoto(255))
             [] f.pc = 255 ->
                    \E contract \in Contractions :
                        SetLocal([f EXCEPT
                                      !.pc = 258,
                                      !.x = Calibrated(f.cal.ax, f.cal.bx, f.cal.cx,
                                                       ts.filt_x, ts.filt_y, contract),
                                      !.y = Calibrated(f.cal.ay, f.cal.by, f.cal.cy,
                                                       ts.filt_x, ts.filt_y, contract)])
             [] f.pc = 258 -> ReturnRead(TRUE, 1)

\* Lines 174..259, one SPI transfer per step.  raw_x, raw_y and the four
\* floats of the struct hold floats; the jump test of lines 225..227 is done
\* on the whole numbers they hold, for which the code's float arithmetic is
\* exact (medians are below 2^12).
xpt2046_read ==
    /\ TRunning("xpt2046_read")
    /\ LET ts == dev.ts
           f  == TTop
           dx == FInt(f.raw_x) - FInt(ts.last_raw_x)
           dy == FInt(f.raw_y) - FInt(ts.last_raw_y)
           alpha == IF ts.sample_count < EWMA_LOCK_SAMPLES
                    THEN EWMA_ALPHA_INITIAL ELSE EWMA_ALPHA
       IN  CASE f.pc = 177 -> IF ~f.ts THEN TSkip(TCaller("down", 0)) ELSE TSkip(TGoto(181))
             [] f.pc = 181 -> TSkip(TCall(F_read_pressure, 183))
             [] f.pc = 183 ->
                    IF f.pressure < PRESSURE_MIN THEN TSkip(TGoto(184)) ELSE TSkip(TGoto(190))
             [] f.pc = 184 ->
                    SetTs([ts EXCEPT !.sample_count = 0, !.pen_down_count = 0], TGoto(186))
             [] f.pc = 186 -> ReturnRead(FALSE, 0)
             [] f.pc = 190 ->
                    SetTs([ts EXCEPT !.pen_down_count = ts.pen_down_count + 1], TGoto(191))
             [] f.pc = 191 ->
                    IF ts.pen_down_count < DEBOUNCE_COUNT
                    THEN ReturnRead(TRUE, 0) ELSE TSkip(TGoto(196))
             [] f.pc = 196 ->
                    IF ts.pen_down_count <= DEBOUNCE_COUNT + SETTLE_READS
                    THEN TSkip(TGoto(198)) ELSE TSkip(TGoto(207))
             [] f.pc = 198 -> TSkip(TCall(F_spi_read_channel(XPT_CMD_X), 199))
             [] f.pc = 199 -> TSkip(TCall(F_spi_read_channel(XPT_CMD_Y), 200))
             [] f.pc = 200 -> ReturnRead(TRUE, 0)
             [] f.pc = 207 ->
                    IF f.i < MEDIAN_SAMPLES THEN TSkip(TGoto(208)) ELSE TSkip(TGoto(212))
             [] f.pc = 208 -> TSkip(TCall(F_spi_read_channel(XPT_CMD_X), 209))
             [] f.pc = 209 -> TSkip(TCall(F_spi_read_channel(XPT_CMD_Y), 210))
             [] f.pc = 210 -> SetLocal([f EXCEPT !.i = f.i + 1, !.pc = 207])
             [] f.pc = 212 ->
                    SetLocal([f EXCEPT !.pc = 216,
                                       !.raw_x = Float(median_of(f.samples_x, MEDIAN_SAMPLES)),
                                       !.raw_y = Float(median_of(f.samples_y, MEDIAN_SAMPLES))])
             [] f.pc = 216 -> TSkip(TCall(F_read_pressure, 217))
             [] f.pc = 217 ->
                    IF f.pressure2 < PRESSURE_MIN THEN TSkip(TGoto(218)) ELSE TSkip(TGoto(224))
             [] f.pc = 218 ->
                    SetTs([ts EXCEPT !.sample_count = 0, !.pen_down_count = 0], TGoto(220))
             [] f.pc = 220 -> ReturnRead(FALSE, 0)
             [] f.pc = 224 ->
                    IF ts.sample_count > 0
                       /\ dx * dx + dy * dy > JUMP_THRESHOLD * JUMP_THRESHOLD
                    THEN SetTs([ts EXCEPT !.sample_count = 0], TGoto(233))
                    ELSE TSkip(TGoto(233))
             [] f.pc = 233 ->
                    SetTs([ts EXCEPT !.last_raw_x = f.raw_x, !.last_raw_y = f.raw_y],
                          TGoto(237))
             [] f.pc = 237 ->
                    IF ts.sample_count = 0
                    THEN SetTs([ts EXCEPT !.filt_x = f.raw_x,
                                          !.filt_y = f.raw_y,
                                          !.sample_count = 1], TGoto(255))
                    ELSE TSkip(TGoto(244))
             [] f.pc = 244 ->
                    \E contract \in Contractions :
                        SetTs([ts EXCEPT
                                   !.filt_x = Ewma(alpha, f.raw_x, ts.filt_x, contract),
                                   !.filt_y = Ewma(alpha, f.raw_y, ts.filt_y, contract),
                                   !.sample_count = ts.sample_count + 1], TGoto(255))
             [] f.pc = 255 ->
                    \E contract \in Contractions :
                        SetLocal([f EXCEPT
                                      !.pc = 258,
                                      !.x = Calibrated(f.cal.ax, f.cal.bx, f.cal.cx,
                                                       ts.filt_x, ts.filt_y, contract),
                                      !.y = Calibrated(f.cal.ay, f.cal.by, f.cal.cy,
                                                       ts.filt_x, ts.filt_y, contract)])
             [] f.pc = 258 -> ReturnRead(TRUE, 1)

-----------------------------------------------------------------------------
(* src/core/service_main.c: the touch thread *)

\* the struct xpt2046 as xpt2046_open leaves it (calloc, line 146)
OpenedTs ==
    [fd |-> TRUE, filt_x |-> 0, filt_y |-> 0, last_raw_x |-> 0, last_raw_y |-> 0,
     pen_down_count |-> 0, sample_count |-> 0]

\* xpt2046_open (line 173): the device is opened and configured, or the call
\* fails and leaves nothing open
xpt2046_open(next) ==
    /\ dev' = [dev EXCEPT !.ts = OpenedTs]
    /\ touch' = next
    /\ UNCHANGED <<lev, stack, cur, sinceDmb, log, handle, g_running, now>>

\* xpt2046_close (lines 261..268)
xpt2046_close(next) ==
    /\ dev' = [dev EXCEPT !.ts.fd = FALSE]
    /\ touch' = next
    /\ UNCHANGED <<lev, stack, cur, sinceDmb, log, handle, g_running, now>>

\* The x and y of line 195 are declared in the loop body without a value:
\* until xpt2046_read writes them they hold whatever the build left in their
\* place, any int at all.  Indeterminate stands for every such value; it is
\* no number, so a step that computed with it or compared it could not be
\* taken.
Indeterminate == "indeterminate"

\* lines 200..203
Clamp(v, size) == IF v < 0 THEN 0 ELSE IF v >= size THEN size - 1 ELSE v

\* touch_thread_fn that goes on waiting when the run flag is 0
touch_thread_fn_never_stops ==
    /\ TRunning("touch_thread_fn")
    /\ LET f == TTop
       IN  CASE f.pc = 173 ->
                    \/ xpt2046_open(<<[f EXCEPT !.pc = 179, !.ts = TRUE]>>)
                    \/ TSkip(TGoto(214))
             [] f.pc = 179 ->
                    TSkip(TCall(F_uinput_touch_create(f.width, f.height), 180))
             [] f.pc = 180 -> IF f.ut THEN TSkip(TGoto(194)) ELSE TSkip(TGoto(182))
             [] f.pc = 182 -> xpt2046_close(TGoto(214))
             [] f.pc = 194 -> IF g_running # 0 THEN TSkip(TGoto(196)) ELSE TSkip(TGoto(207))
             [] f.pc = 196 ->
                    TSkip(<<F_xpt2046_read(f.ts, DefaultCal(f.width, f.height),
                                           Indeterminate, Indeterminate),
                            [f EXCEPT !.pc = 199, !.x = Indeterminate,
                                      !.y = Indeterminate]>> \o Tail(touch))
             [] f.pc = 199 ->
                    IF f.down # 0
                    THEN TSkip(<<[f EXCEPT !.x = Clamp(f.x, f.width),
                                           !.y = Clamp(f.y, f.height), !.pc = 206]>>)
                    ELSE TSkip(TGoto(206))
             [] f.pc = 206 ->
                    TSkip(TCall(F_uinput_touch_report(f.ut, f.down, f.x, f.y), 207))
             [] f.pc = 207 -> TUsleep(10000, TGoto(194))
             [] f.pc = 210 -> TSkip(TCall(F_uinput_touch_destroy(f.ut), 211))
             [] f.pc = 211 -> xpt2046_close(TGoto(214))
             [] OTHER -> FALSE

\* Lines 169..214; 214 is the thread having returned, its frame staying
\* until pthread_join takes it.  The calibration of lines 187..190 is
\* width / 4096 for x and height / 4096 for y.
touch_thread_fn ==
    /\ TRunning("touch_thread_fn")
    /\ LET f == TTop
       IN  CASE f.pc = 173 ->
                    \/ xpt2046_open(<<[f EXCEPT !.pc = 179, !.ts = TRUE]>>)
                    \/ TSkip(TGoto(214))
             [] f.pc = 179 ->
                    TSkip(TCall(F_uinput_touch_create(f.width, f.height), 180))
             [] f.pc = 180 -> IF f.ut THEN TSkip(TGoto(194)) ELSE TSkip(TGoto(182))
             [] f.pc = 182 -> xpt2046_close(TGoto(214))
             [] f.pc = 194 -> IF g_running # 0 THEN TSkip(TGoto(196)) ELSE TSkip(TGoto(210))
             [] f.pc = 196 ->
                    TSkip(<<F_xpt2046_read(f.ts, DefaultCal(f.width, f.height),
                                           Indeterminate, Indeterminate),
                            [f EXCEPT !.pc = 199, !.x = Indeterminate,
                                      !.y = Indeterminate]>> \o Tail(touch))
             [] f.pc = 199 ->
                    IF f.down # 0
                    THEN TSkip(<<[f EXCEPT !.x = Clamp(f.x, f.width),
                                           !.y = Clamp(f.y, f.height), !.pc = 206]>>)
                    ELSE TSkip(TGoto(206))
             [] f.pc = 206 ->
                    TSkip(TCall(F_uinput_touch_report(f.ut, f.down, f.x, f.y), 207))
             [] f.pc = 207 -> TUsleep(10000, TGoto(194))
             [] f.pc = 210 -> TSkip(TCall(F_uinput_touch_destroy(f.ut), 211))
             [] f.pc = 211 -> xpt2046_close(TGoto(214))
             [] OTHER -> FALSE

\* the steps of the touch thread
TouchThread ==
    \/ touch_thread_fn
    \/ uinput_touch_create
    \/ xpt2046_read
    \/ read_pressure
    \/ spi_read_channel
    \/ uinput_touch_report
    \/ uinput_touch_destroy

-----------------------------------------------------------------------------
(* Callers of the bus: the inputs the model draws *)

\* command bytes, parameter bytes and pixels given to direct calls
CmdBytes   == {ILI9481_RAMWR, ILI9481_GAMMASET}
DataBytes  == {0, 165, 255}
PixelVals  == {0, 43981, 65535}

PixelBufs(n) == {Buf(seq) : seq \in [1..n -> PixelVals]}

\* a new outermost call: the panel log starts afresh
Enter(frame) ==
    /\ stack = <<>>
    /\ stack' = <<frame>>
    /\ cur' = [call |-> frame, rst0 |-> Level(lev, GPIO_RST)]
    /\ log' = <<>>
    /\ UNCHANGED <<lev, sinceDmb, daemon>>

\* ---- inputs of scale_frame_sample ----
\* widths and heights below 2^16: the smallest, around a byte, the panel's,
\* and the largest
Sides == {1, 2, 3, 255, 256, 257, 320, 480, 32768, 65535}

\* destination coordinates below t: the first two, the middle and the last
Coords(t) == {0, 1, t \div 2, t - 1} \cap 0..(t - 1)

CallSample ==
    /\ cur.call.fn = "none"
    /\ \E sw, sh, tw, th \in Sides : \E dx \in Coords(tw), dy \in Coords(th) :
           Enter(F_scale_frame_sample(sw, sh, tw, th, dx, dy))

\* ---- inputs of config_parse_args ----
\* the texts given as numbers: in range, at and past both limits of the frame
\* rate, negative, with white space and trailing text, no number, empty, and
\* too long for an int
NumberTexts ==
    { <<"3", "0">>, <<"0">>, <<"-", "5">>, <<"6", "1">>, <<"6", "0">>, <<"1">>,
      <<" ", "7", "x">>, <<"a", "b", "c">>, <<>>,
      <<"9", "9", "9", "9", "9", "9", "9", "9", "9", "9", "9">> }

ConfigArgs ==
    {Arg("--fps=", t) : t \in NumberTexts}
        \cup {Arg("--rotate=", t) :
                  t \in {<<"0">>, <<"4", "5">>, <<"-", "9", "0">>,
                         <<"9", "9", "9", "9", "9", "9", "9", "9", "9", "9", "9">>}}
        \cup {Arg(o, <<>>) : o \in {"--touch", "--no-touch", "--benchmark",
                                    "--test-pattern", "--gpio-probe", "--help",
                                    "--bogus", "--fb="}}
        \cup {Arg("--config=", <<"c">>)}

Argvs == UNION {[1..n -> ConfigArgs] : n \in 0..MaxArgs}

Kv(key, val) == [key |-> key, val |-> val]
ConfigFile(lines) == [fp |-> TRUE, v |-> lines]

\* the config files: missing, empty, one fps line of every text, and files
\* of several keys
ConfigFiles ==
    {NoFile, ConfigFile(<<>>)}
        \cup {ConfigFile(<<Kv("fps", t)>>) : t \in NumberTexts}
        \cup {ConfigFile(<<Kv("fps", <<"0">>), Kv("rotation", <<"9", "0">>)>>),
              ConfigFile(<<Kv("enable_touch", <<"1">>), Kv("colour", <<"x">>),
                           Kv("fps", <<"6", "1">>)>>)}

\* main, lines 233 and 234: the defaults, then the command line; a file is
\* read only when --config= names one
CallParseArgs ==
    /\ cur.call.fn = "none"
    /\ \E argv \in Argvs, file \in ConfigFiles :
           /\ (file = NoFile \/ \E n \in 1..Len(argv) : argv[n].opt = "--config=")
           /\ Enter(F_config_parse_args(config_defaults, argv, file))

\* State after gpio_bus_open and ili9481_init(bus, rotate) have returned, as
\* main has it from line 254 on: RST is high, the data pins hold the
\* address-mode byte, the last byte written, and the one store since the last
\* barrier is the WR-high store of bus_write8 (gpio_mmio.c:173).
InitialisedLevels ==
    {wr_mask \cup dc_mask \cup rd_mask \cup rst_mask
         \cup lut_set(ili9481_madctl_for_rotate(r)) : r \in {0, 90, 180, 270}}

InitialisedStores == {[mask |-> wr_mask, reg |-> "GPSET0"]}

\* main, lines 234..305 in mirror mode: once the command line is accepted the
\* bus is opened, the panel initialised with cfg.rotation (the state
\* Initialised, the data pins holding the MADCTL parameter) and the flush
\* loop entered with cfg.fps
CallFlushLoopCfg ==
    /\ stack = <<>> /\ cur.call.fn = "config_parse_args"
    /\ cur.call.ret = 0 /\ ~cur.call.exited
    /\ ~cur.call.cfg.benchmark /\ ~cur.call.cfg.gpio_probe
    /\ ~cur.call.cfg.test_pattern
    /\ stack' = <<F_fb_flush_loop(2, 1, cur.call.cfg.fps)>>
    /\ cur' = [call |-> F_fb_flush_loop(2, 1, cur.call.cfg.fps), rst0 |-> 1]
    /\ log' = <<>>
    /\ lev' = wr_mask \cup dc_mask \cup rd_mask \cup rst_mask
                  \cup lut_set(ili9481_madctl_for_rotate(cur.call.cfg.rotation))
    /\ sinceDmb' = InitialisedStores
    /\ handle' = Opened
    /\ UNCHANGED <<g_running, now, touch, dev>>

\* ---- inputs of scale_frame ----
\* the pixel layouts of the source framebuffer: RGB565, XRGB8888, RGBX8888,
\* XRGB2101010 and a 32-bit word with 4-bit channels
Layout(bpp, r_off, r_len, g_off, g_len, b_off, b_len) ==
    [blue_length |-> b_len, blue_offset |-> b_off,
     green_length |-> g_len, green_offset |-> g_off,
     red_length |-> r_len, red_offset |-> r_off, src_bpp |-> bpp]

Layouts ==
    {Layout(16, 11, 5, 5, 6, 0, 5),
     Layout(32, 16, 8, 8, 8, 0, 8),
     Layout(32, 24, 8, 16, 8, 8, 8),
     Layout(32, 20, 10, 10, 10, 0, 10),
     Layout(32, 8, 4, 4, 4, 0, 4)}

\* the bytes of a mapped source framebuffer of n bytes
SourceMaps(n) ==
    {[k \in 1..n |-> (k * 85) % 256], [k \in 1..n |-> (k * 37 + 11) % 256]}

\* the struct fb_provider as fb_provider_init fills it (lines 206..221)
Provider(map, sw, sh, stride, lay, tw, th) ==
    [blue_length |-> lay.blue_length, blue_offset |-> lay.blue_offset,
     green_length |-> lay.green_length, green_offset |-> lay.green_offset,
     map |-> map,
     red_length |-> lay.red_length, red_offset |-> lay.red_offset,
     scale_buf |-> [k \in 1..(tw * th) |-> 0],
     src_bpp |-> lay.src_bpp, src_height |-> sh, src_stride |-> stride,
     src_width |-> sw, tft_height |-> th, tft_width |-> tw]

\* scale_frame on every source and destination size up to MaxScale, with and
\* without padding at the end of a source row
CallScaleFrame ==
    /\ cur.call.fn = "none"
    /\ \E sw, sh, tw, th \in 1..MaxScale : \E lay \in Layouts : \E pad \in {0, 4} :
           LET stride == sw * (lay.src_bpp \div 8) + pad
           IN  \E map \in SourceMaps(stride * sh) :
                   Enter(F_scale_frame(Provider(map, sw, sh, stride, lay, tw, th)))

CallWriteCmd  == \E c \in CmdBytes : Enter(F_gpio_write_cmd(c))
CallWriteData == \E d \in DataBytes : Enter(F_gpio_write_data(d))
CallWritePixels ==
    \E n \in 0..MaxPixels : \E buf \in PixelBufs(n) : Enter(F_gpio_write_pixels(buf, n))
CallHwReset   == Enter(F_gpio_hw_reset("bus"))

\* every byte value to gpio_write_data
CallWriteAnyByte == \E d \in 0..255 : Enter(F_gpio_write_data(d))

\* rotations given to ili9481_init: the four supported ones and other values
\* of a uint32_t (2147483647 is the largest this module can write)
Rotations == {0, 90, 180, 270, 45, 1, 360, 2147483647}

\* frames given to ili9481_flush_full: every buffer of the small sizes, and
\* one-colour and ramp buffers of sizes whose windows need both parameter bytes
SmallSizes == {wh \in (1..MaxSide) \X (1..MaxSide) : wh[1] * wh[2] <= MaxPixels}
LongSizes  == {<<480, 1>>, <<1, 320>>, <<257, 1>>}
Ramp(n)    == Buf([i \in 1..n |-> (i * 257) % 65536])

Frames ==
    {[h |-> wh[2], pixels |-> buf, w |-> wh[1]] :
        wh \in SmallSizes, buf \in PixelBufs(MaxPixels)}
    \cup {[h |-> wh[2], pixels |-> Ramp(wh[1] * wh[2]), w |-> wh[1]] : wh \in LongSizes}

\* one-colour frames: the whole panel in black, and one row of it in white
FullFrames ==
    {[h |-> 320, pixels |-> Filled(0), w |-> 480],
     [h |-> 1, pixels |-> Filled(65535), w |-> 480]}

CallInit      == \E r \in Rotations : Enter(F_ili9481_init(r))
CallFlushFull ==
    \E f \in Frames : Enter(F_ili9481_flush_full(f.w, f.h, f.pixels))
CallFlushFrame ==
    \E f \in Frames \cup FullFrames : Enter(F_ili9481_flush_full(f.w, f.h, f.pixels))
CallPowerOff  == Enter(F_ili9481_power_off)

\* sizes and frame rates given to fb_flush_loop; config.c keeps fps in 1..60
LoopSizes == {<<2, 1>>}
FpsValues == {1, 3, 60}

CallFlushLoop ==
    \E wh \in LoopSizes, fps \in FpsValues : Enter(F_fb_flush_loop(wh[1], wh[2], fps))

\* the command lines the daemon is started with: every combination of the
\* mode flags, --rotate=0, the default 270 or --rotate=45 (atoi takes any
\* number), touch with the default rotation
MainConfigs ==
    {cfg \in {Config(b, p, t, e, r, 30) : b \in BOOLEAN, p \in BOOLEAN, t \in BOOLEAN,
                                         e \in BOOLEAN, r \in {0, 270, 45}} :
        cfg.enable_touch => cfg.rotation = 270}

\* the process starts once
CallMain ==
    /\ cur.call.fn = "none"
    /\ \E cfg \in MainConfigs : Enter(F_main(cfg))




\* ---- inputs of the kernel driver ----
\* The driver and the daemon never drive the panel of one system together: an
\* execution is the driver's when it starts in ProbedLevels, where RD, which
\* the driver has no line for, is not driven, and the daemon's otherwise.
DriverOwnsPanel == GPIO_RD \notin lev

Pars ==
    {Par(ILI9481_WIDTH, ILI9481_HEIGHT, r, rst) : r \in {0, 90, 45}, rst \in BOOLEAN}

CallInitDisplay ==
    /\ DriverOwnsPanel
    /\ \E par \in Pars : Enter(F_ili9481_init_display(par))

\* the deferred-IO callback runs once probe has initialised the panel
CallFlush ==
    /\ DriverOwnsPanel
    /\ cur.call.fn = "ili9481_init_display"
    /\ \E f \in Frames : Enter(F_ili9481_flush(Par(f.w, f.h, 0, TRUE), f.pixels))

\* the device is removed after a probe that registered it
CallRemove ==
    /\ DriverOwnsPanel
    /\ cur.call.fn \in {"ili9481_init_display", "ili9481_flush"}
    /\ Enter(F_ili9481_remove(cur.call.par))

CallFlushFullDaemon ==
    /\ ~DriverOwnsPanel
    /\ CallFlushFull

\* ---- inputs of the SPI mirror ----
PixelBytes == {0, 7, 8, 128, 255}
Pixels32 == {<<b, g, r, x>> : b \in PixelBytes, g \in PixelBytes, r \in PixelBytes,
                              x \in {0, 255}}
\* red, green and blue offsets: XRGB8888 and BGRX8888
Layouts32 == {<<16, 8, 0>>, <<8, 16, 24>>}

CallConvert32 ==
    \E px \in Pixels32, l \in Layouts32 : Enter(F_fbcp_convert32(px, l[1], l[2], l[3]))

\* parameter arrays of every length around the batch size of 64, each byte
\* different from its neighbours
ParamCounts == {0, 1, 2, 15, 63, 64, 65, 128, 129}
Params(n) == [i \in 1..n |-> (i * 7 + 3) % 256]

\* frames of lcd_push: every small buffer, and counting buffers around the
\* chunk size of 4096 bytes
PushCounts == {2047, 2048, 2049, 4097}

CallLcdCmd    == \E c \in {42, 44, 241, 255} : Enter(F_lcd_cmd(c))
CallLcdData16 == \E n \in ParamCounts : Enter(F_lcd_data16(Params(n), n))
CallLcdD8     == \E v \in DataBytes : Enter(F_lcd_d8(v))
CallLcdFill   == \E color \in {0, 43981} : Enter(F_lcd_fill(color))
CallLcdPush   ==
    \/ \E n \in 0..MaxPixels, buf \in PixelBufs(MaxPixels) : Enter(F_lcd_push(buf, n))
    \/ \E n \in PushCounts : Enter(F_lcd_push(Counting, n))

\* ---- inputs of the touch devices ----
\* a call on a device by the thread that uses it: what the devices were asked
\* so far, and the device as the call finds it, are kept for the properties
EnterDev(frame) ==
    /\ touch = <<>>
    /\ touch' = <<frame>>
    /\ cur' = [call |-> frame, log0 |-> dev.io, rst0 |-> Level(lev, GPIO_RST),
               ts0 |-> dev.ts, ut0 |-> dev.ut]
    /\ UNCHANGED <<lev, stack, sinceDmb, log, handle, g_running, now, dev>>

\* the device is used until it is destroyed; a null pointer may be passed at
\* any time
CallReport ==
    /\ dev.ut.alive
    /\ Len(dev.io) < MaxEmitted
    /\ \E down \in {0, 1, -1}, x \in {0, 479}, y \in {0, 319} :
           EnterDev(F_uinput_touch_report(TRUE, down, x, y))

CallReportNull ==
    /\ Len(dev.io) < MaxEmitted
    /\ \E down \in {0, 1} : EnterDev(F_uinput_touch_report(FALSE, down, 0, 0))

CallDestroy ==
    /\ dev.ut.alive
    /\ EnterDev(F_uinput_touch_destroy(TRUE))

\* the reads among the runs
RECURSIVE ReadsIn(_)
ReadsIn(runs) ==
    IF runs = <<>> THEN 0
    ELSE (IF Head(runs).e.k = "read" THEN Head(runs).n ELSE 0) + ReadsIn(Tail(runs))

\* the caller passes the calibration of a 480x320 screen
CallRead ==
    /\ ReadsIn(dev.io) < MaxReads
    /\ \E ts \in BOOLEAN :
           EnterDev(F_xpt2046_read(ts, DefaultCal(480, 320), 0, 0))

\* the touch thread beside the main thread: it is followed for MaxPolls
\* iterations of its loop, and then stays at the loop test of line 194 until
\* the run flag is 0
PollsLeft ==
    ~(/\ TRunning("touch_thread_fn") /\ TTop.pc = 194
      /\ g_running # 0
      /\ ReadsIn(dev.io) >= MaxPolls)

-----------------------------------------------------------------------------
(* Properties *)

Idle == stack = <<>>
Returned(fn) == Idle /\ cur.call.fn = fn
\* the call of fn on a touch device has returned
\* beside the main thread the pen is up: the Z1 reads answer 0
PenStaysUp ==
    \A n \in 1..Len(touch) : touch[n].fn = "read_pressure" => touch[n].z1 = 0

\* the flush loop under main is followed for MaxMainFrames frames that are
\* converted and flushed in a millisecond, from the first start time, with
\* the first of the buffers
LoopFollowed ==
    \A n \in 1..Len(stack) :
        stack[n].fn = "fb_flush_loop" =>
            /\ stack[n].pc = 250 => stack[n].frame_count < MaxMainFrames
            /\ stack[n].pc = 242 => stack[n].next_tick = Timespec(7, 0)
            /\ stack[n].scale_buf \in {Filled(0), Filled(43981)}
            /\ TsLeq(now, TsAdd(stack[n].next_tick, Timespec(0, 1000000)))

DevReturned(fn) == touch = <<>> /\ cur.call.fn = fn
OnStack(fn) == \E n \in 1..Len(stack) : stack[n].fn = fn

\* events as the panel sees them
EvLatch(dc, v) == [dc |-> dc, k |-> "wr", v |-> v]
EvEdge(name, v) == [k |-> name, v |-> v]
EvSleep(us)    == [k |-> "sleep", v |-> us]

\* the last n runs of the log
LastRuns(n) == SubSeq(log, Len(log) - n + 1, Len(log))

\* number of latches in runs[lo..hi], by halves
RECURSIVE LatchesIn(_, _, _)
LatchesIn(runs, lo, hi) ==
    IF lo > hi THEN 0
    ELSE IF lo = hi THEN (IF runs[lo].e.k = "wr" THEN runs[lo].n ELSE 0)
    ELSE LET mid == (lo + hi) \div 2
         IN  LatchesIn(runs, lo, mid) + LatchesIn(runs, mid + 1, hi)

\* number of latches in a sequence of runs
Latches(runs) == LatchesIn(runs, 1, Len(runs))

\* C1: in every bus write the data-pin set store comes first, then the
\* data-pin clear store, then the WR-low store, a barrier and the WR-high
\* store; the data pins change only while WR is high, and at the rising edge
\* of WR the panel latches exactly the byte being written.
C1_BusWriteOrder ==
    [][ /\ Running("bus_write8") =>
              /\ Top.pc = 170 => lut_set(Top.val) \subseteq lev
              /\ Top.pc >= 171 => DecodeBus(lev) = Top.val
              /\ Top.pc <= 171 => GPIO_WR \in lev
              /\ Top.pc >= 172 => GPIO_WR \notin lev
              /\ Top.pc = 173 => sinceDmb = {}
        /\ (lev' \cap DataPinMask # lev \cap DataPinMask) =>
              GPIO_WR \in lev /\ GPIO_WR \in lev'
        /\ (GPIO_WR \notin lev /\ GPIO_WR \in lev') =>
              /\ Running("bus_write8") /\ Top.pc = 173
              /\ DecodeBus(lev) = Top.val /\ DecodeBus(lev') = Top.val
              /\ log' = RecordOne(log, EvLatch(Level(lev, GPIO_DC), Top.val))
      ]_vars

\* C1 witness: a write of 0xA5 is about to raise WR, after the barrier
C1_Witness ==
    /\ Running("bus_write8") /\ Top.pc = 173 /\ Top.val = 165
    /\ GPIO_WR \notin lev /\ DecodeBus(lev) = 165 /\ sinceDmb = {}

\* C2: for every byte the set mask and the clear mask are disjoint and
\* together are exactly the mask of the eight data-bus pins.
C2_LutPartition ==
    Running("bus_write8") =>
        /\ lut_set(Top.val) \cap lut_clr(Top.val) = {}
        /\ lut_set(Top.val) \cup lut_clr(Top.val) = DataPinMask
        /\ MaskValue(lut_set(Top.val)) + MaskValue(lut_clr(Top.val))
               = MaskValue(DataPinMask)

\* C2 witness: the masks of 0x5A are in use, neither empty
C2_Witness ==
    /\ Running("bus_write8") /\ Top.val = 90 /\ Top.pc = 171
    /\ lut_set(90) # {} /\ lut_clr(90) # {}

\* C3: whatever the levels were, after the set mask went through the set
\* register and the clear mask through the clear register the data pins
\* decode to the byte.
C3_RoundTrip ==
    [][ (Running("bus_write8") /\ Top.pc = 169) =>
            /\ DecodeBus(ApplyStore(ApplyStore(lev, "GPSET0", lut_set(Top.val)),
                                    "GPCLR0", lut_clr(Top.val))) = Top.val
            /\ DecodeBus(ApplyStore(lev', "GPCLR0", lut_clr(Top.val))) = Top.val
      ]_vars

\* C3 witness: 0x5A is about to be placed on a bus that holds 0xA5
C3_Witness ==
    /\ Running("bus_write8") /\ Top.pc = 169 /\ Top.val = 90
    /\ DecodeBus(lev) = 165

\* C4: gpio_write_cmd(c) lowers DC, makes exactly one bus write, of c, latched
\* with DC low, and raises DC; DC is high when it returns.
C4_WriteCmd ==
    /\ (Running("gpio_write_cmd") /\ Top.pc = 282) =>
           /\ Len(log) >= 3
           /\ LastRuns(3) = Runs(<<EvEdge("dc", 0), EvLatch(0, Top.cmd), EvEdge("dc", 1)>>)
           /\ GPIO_DC \in lev
    /\ Returned("gpio_write_cmd") =>
           /\ log = Runs(<<EvEdge("dc", 0), EvLatch(0, cur.call.cmd), EvEdge("dc", 1)>>)
           /\ GPIO_DC \in lev

\* C4 witness: gpio_write_cmd(RAMWR) has returned
C4_Witness ==
    /\ Returned("gpio_write_cmd") /\ cur.call.cmd = ILI9481_RAMWR
    /\ Latches(log) = 1

\* C5: in gpio_write_cmd a barrier separates each DC store from the stores of
\* the command's bus write: none of them is still unordered with the DC store
\* when the later of the two is issued.
C5_DcBarriers ==
    /\ (OnStack("gpio_write_cmd") /\ Running("bus_write8") /\ Top.pc = 169) =>
           [mask |-> dc_mask, reg |-> "GPCLR0"] \notin sinceDmb
    /\ (Running("gpio_write_cmd") /\ Top.pc = 281) => sinceDmb = {}

\* C6: while gpio_write_data or gpio_write_pixels runs DC is high and none of
\* their steps stores to it; every byte they write is latched as data.
C6_DataKeepsDc ==
    /\ [](/\ (OnStack("gpio_write_data") \/ OnStack("gpio_write_pixels")) =>
                 GPIO_DC \in lev
          /\ (cur.call.fn \in {"gpio_write_data", "gpio_write_pixels"}) =>
                 \A n \in 1..Len(log) : log[n].e.k = "wr" /\ log[n].e.dc = 1
          /\ Returned("gpio_write_data") => log = Runs(<<EvLatch(1, cur.call.data)>>))
    /\ [][(OnStack("gpio_write_data") \/ OnStack("gpio_write_pixels")) =>
              \A st \in sinceDmb' \ sinceDmb : st.mask \cap dc_mask = {}]_vars

\* C6 witness: gpio_write_data(0xA5) has returned
C6_Witness ==
    /\ Returned("gpio_write_data") /\ cur.call.data = 165
    /\ Latches(log) = 1 /\ GPIO_DC \in lev

\* the writes of pixels[from..count-1]: per pixel the high byte, then the low
\* byte
PixelWrites(pixels, from, count) ==
    [n \in 1..(2 * (count - from)) |->
        LET px == PixelAt(pixels, from + (n - 1) \div 2)
        IN  EvLatch(1, IF n % 2 = 1 THEN px \div 256 ELSE px % 256)]

\* C7: gpio_write_pixels writes, pixel by pixel in buffer order, the high byte
\* and then the low byte: 2 * count writes; 0xABCD gives 0xAB then 0xCD.
C7_PixelBytes ==
    Returned("gpio_write_pixels") =>
        /\ log = Runs(PixelWrites(cur.call.pixels, 0, cur.call.count))
        /\ Latches(log) = 2 * cur.call.count
        /\ (cur.call.count = 1 /\ PixelAt(cur.call.pixels, 0) = 43981) =>
               log = <<[e |-> EvLatch(1, 171), n |-> 1], [e |-> EvLatch(1, 205), n |-> 1]>>

\* C7 witness: the buffer <<0xABCD, 0x0000>> has been streamed
C7_Witness ==
    /\ Returned("gpio_write_pixels") /\ cur.call.count = 2
    /\ cur.call.pixels = Buf(<<43981, 0>>)
    /\ Latches(log) = 4

\* the events of gpio_write_cmd(c)
CmdEvents(c) == <<EvEdge("dc", 0), EvLatch(0, c), EvEdge("dc", 1)>>

\* an address window [0, last] as the four parameter bytes
WindowEvents(last) ==
    <<EvLatch(1, 0), EvLatch(1, 0), EvLatch(1, last \div 256), EvLatch(1, last % 256)>>

FlushHeader(w, h) ==
    CmdEvents(42) \o WindowEvents(w - 1) \o CmdEvents(43) \o WindowEvents(h - 1)
        \o CmdEvents(44)

\* C8: ili9481_flush_full(w, h, pixels) puts on the bus CASET and the window
\* [0, w-1], PASET and the window [0, h-1], RAMWR, then the w*h pixels as
\* 2*w*h data writes, and nothing else; for 480 x 320 and a black buffer the
\* windows are [0,479] and [0,319] and 307200 data writes of 0x00 follow.
C8_FlushFull ==
    Returned("ili9481_flush_full") =>
        LET w == cur.call.width
            h == cur.call.height
            px == cur.call.pixels
        IN  /\ Latches(log) = 11 + 2 * w * h
            /\ GPIO_DC \in lev
            /\ IF px.fill
               THEN log = Runs(FlushHeader(w, h))
                            \o <<[e |-> EvLatch(1, px.v[1] % 256), n |-> 2 * w * h]>>
               ELSE log = Runs(FlushHeader(w, h) \o PixelWrites(px, 0, w * h))
            /\ (w = 480 /\ h = 320 /\ px = Filled(0)) =>
                   log = << [e |-> EvEdge("dc", 0), n |-> 1],
                            [e |-> EvLatch(0, 42), n |-> 1],
                            [e |-> EvEdge("dc", 1), n |-> 1],
                            [e |-> EvLatch(1, 0), n |-> 2],
                            [e |-> EvLatch(1, 1), n |-> 1],
                            [e |-> EvLatch(1, 223), n |-> 1],
                            [e |-> EvEdge("dc", 0), n |-> 1],
                            [e |-> EvLatch(0, 43), n |-> 1],
                            [e |-> EvEdge("dc", 1), n |-> 1],
                            [e |-> EvLatch(1, 0), n |-> 2],
                            [e |-> EvLatch(1, 1), n |-> 1],
                            [e |-> EvLatch(1, 63), n |-> 1],
                            [e |-> EvEdge("dc", 0), n |-> 1],
                            [e |-> EvLatch(0, 44), n |-> 1],
                            [e |-> EvEdge("dc", 1), n |-> 1],
                            [e |-> EvLatch(1, 0), n |-> 307200] >>

\* C8 witness: a white 480 x 1 frame has been flushed, its column window
\* [0,479] sent as 0x00 0x00 0x01 0xDF and its 960 pixel bytes after RAMWR
C8_Witness ==
    /\ Returned("ili9481_flush_full")
    /\ cur.call.width = 480 /\ cur.call.height = 1
    /\ cur.call.pixels = Filled(65535)
    /\ Latches(log) = 971

\* the log `runs` is `expected`, each sleep lasting at least as long as expected
Matches(runs, expected) ==
    /\ Len(runs) = Len(expected)
    /\ \A n \in 1..Len(expected) :
           /\ runs[n].n = expected[n].n
           /\ IF expected[n].e.k = "sleep"
              THEN runs[n].e.k = "sleep" /\ runs[n].e.v >= expected[n].e.v
              ELSE runs[n].e = expected[n].e

IsSleep(run, us) == run.e.k = "sleep" /\ run.e.v >= us /\ run.n = 1

\* the reset pulse as the panel sees it; RST falls only if it was high
ResetEvents(rst0) ==
    (IF rst0 = 1 THEN <<EvEdge("rst", 0)>> ELSE <<>>)
        \o <<EvSleep(20000), EvEdge("rst", 1), EvSleep(120000)>>

\* the init table as the claim gives it: command, parameter count, delay in ms
InitOrder == <<
    <<1, 0, 50>>, <<17, 0, 20>>, <<208, 3, 0>>, <<209, 3, 0>>, <<210, 2, 0>>,
    <<192, 5, 0>>, <<197, 1, 0>>, <<200, 12, 0>>, <<58, 1, 0>>, <<41, 0, 25>> >>

InitEntryEvents(n) ==
    CmdEvents(InitOrder[n][1])
        \o [j \in 1..InitOrder[n][2] |-> EvLatch(1, ili9481_init_cmds[n].data[j])]
        \o (IF InitOrder[n][3] # 0 THEN <<EvSleep(InitOrder[n][3] * 1000)>> ELSE <<>>)

RECURSIVE InitTableEvents(_)
InitTableEvents(n) ==
    IF n > Len(InitOrder) THEN <<>> ELSE InitEntryEvents(n) \o InitTableEvents(n + 1)

InitEvents(rotate, rst0) ==
    ResetEvents(rst0) \o InitTableEvents(1) \o CmdEvents(54)
        \o <<EvLatch(1, ili9481_madctl_for_rotate(rotate))>>

\* C9: ili9481_init resets the panel, then sends SWRESET, SLPOUT, PWRSET,
\* VMCTR, PWRNORM, PANELDRV, FRMCTR, GAMMASET, COLMOD and DISPON in this order,
\* each with its parameter bytes and then its delay (50, 20, 25 ms), and last
\* MADCTL with the address-mode byte of the rotation.
C9_InitSequence ==
    Returned("ili9481_init") =>
        /\ Len(ili9481_init_cmds) = Len(InitOrder)
        /\ Matches(log, Runs(InitEvents(cur.call.rotate, cur.rst0)))
        /\ log[Len(log)] =
               [e |-> EvLatch(1, ili9481_madctl_for_rotate(cur.call.rotate)), n |-> 1]

\* C9 witness: ili9481_init(270) has returned after 39 bus writes
C9_Witness ==
    /\ Returned("ili9481_init") /\ cur.call.rotate = 270
    /\ Latches(log) = 39
    /\ log[Len(log)].e = EvLatch(1, 40)

\* C10: gpio_hw_reset drives RST low, keeps it low for at least 20 ms, drives
\* it high and waits at least 120 ms before it returns: nothing reaches the
\* panel in the 120 ms after the release.
C10_HwReset ==
    /\ Returned("gpio_hw_reset") =>
           Matches(log, Runs(ResetEvents(cur.rst0))) /\ GPIO_RST \in lev
    /\ (Running("gpio_hw_reset") /\ Top.pc \in {265, 268}) => GPIO_RST \notin lev
    /\ \A n \in 1..Len(log) :
           log[n].e = EvEdge("rst", 1) =>
               /\ n > 1 /\ IsSleep(log[n - 1], 20000)
               /\ n < Len(log) => IsSleep(log[n + 1], 120000)
               /\ n = Len(log) => Running("gpio_hw_reset") /\ Top.pc = 269

\* C10 witness: gpio_hw_reset has returned, RST having been high at entry
C10_Witness ==
    /\ Returned("gpio_hw_reset") /\ cur.rst0 = 1
    /\ Len(log) = 4 /\ IsSleep(log[4], 120000)

\* C11: the address-mode byte depends on the rotation alone: 0x0A for 0, 0xE8
\* for 90, 0xCA for 180, 0x28 for 270 and 0x28 for every other value; it is
\* the byte ili9481_init passes to gpio_write_data after MADCTL and the last
\* byte the panel latches.
MadctlTable(r) ==
    IF r = 0 THEN 10 ELSE IF r = 90 THEN 232 ELSE IF r = 180 THEN 202 ELSE 40

C11_RotationByte ==
    /\ \A r \in Rotations : ili9481_madctl_for_rotate(r) = MadctlTable(r)
    /\ Returned("ili9481_init") =>
           /\ log[Len(log)] = [e |-> EvLatch(1, MadctlTable(cur.call.rotate)), n |-> 1]
           /\ log[Len(log) - 2].e = EvLatch(0, 54)

\* C11 witness: ili9481_init(360), a rotation outside the table, has returned
\* and the last byte latched is 0x28
C11_Witness ==
    /\ Returned("ili9481_init") /\ cur.call.rotate = 360
    /\ log[Len(log)].e = EvLatch(1, 40)

PowerOffEvents ==
    CmdEvents(40) \o <<EvSleep(20000)>> \o CmdEvents(16) \o <<EvSleep(120000)>>

\* the runs of the log since the last call of a panel operation
RECURSIVE LastCall(_, _)
LastCall(runs, n) ==
    IF n = 0 \/ runs[n].e.k = "call" THEN n ELSE LastCall(runs, n - 1)

SinceCall(runs) == SubSeq(runs, LastCall(runs, Len(runs)) + 1, Len(runs))

\* C12: when main shuts the daemon down, ili9481_power_off sends DISPOFF,
\* waits at least 20 ms, sends SLPIN and waits at least 120 ms, in this order;
\* it writes no parameter and no pixel, and the bus handle stays allocated,
\* open and mapped.
C12_PowerOff ==
    /\ OnStack("ili9481_power_off") =>
           /\ handle = Opened
           /\ \A n \in 1..Len(SinceCall(log)) :
                  SinceCall(log)[n].e.k = "wr" => SinceCall(log)[n].e.dc = 0
    /\ (Running("main") /\ Top.pc = 319) =>
           /\ Matches(SinceCall(log), Runs(PowerOffEvents))
           /\ Latches(SinceCall(log)) = 2
           /\ handle = Opened

\* the frame of fn that is on the stack
FrameOf(fn) == CHOOSE f \in {stack[n] : n \in 1..Len(stack)} : f.fn = fn

\* start + n * frame_ns as a timespec, computed in microseconds and a rest
\* below 1000 ns so that no intermediate value exceeds the integers of the
\* checker
DeadlineOf(start, n, frame_ns) ==
    LET rest  == (start.tv_nsec % 1000) + n * (frame_ns % 1000)
        micro == (start.tv_nsec \div 1000) + n * (frame_ns \div 1000) + (rest \div 1000)
    IN  Timespec(start.tv_sec + micro \div 1000000,
                 (micro % 1000000) * 1000 + (rest % 1000))

\* C14: whenever fb_flush_loop is about to test the flag or to wait, with N
\* frames flushed so far, the deadline is start + N * frame_ns, where frame_ns
\* is 10^9 / fps rounded down and start is the clock read at loop entry,
\* whatever time the N conversions and flushes took; its tv_nsec lies in
\* [0, 10^9), the whole seconds being in tv_sec.
C14_Deadline ==
    (Running("fb_flush_loop") /\ Top.pc \in {248, 250}) =>
        /\ Top.frame_ns = NSEC_PER_SEC \div Top.fps
        /\ Top.fps_start \in StartTimes
        /\ Top.next_tick = DeadlineOf(Top.fps_start, Top.frame_count, Top.frame_ns)
        /\ Top.next_tick.tv_nsec >= 0 /\ Top.next_tick.tv_nsec < NSEC_PER_SEC

\* the third wait of a 3 fps loop that started 1 ns before a full second and
\* whose frames each took a second and a half
C14_Witness ==
    /\ Running("fb_flush_loop") /\ Top.pc = 250
    /\ Top.fps = 3 /\ Top.frame_count = 2
    /\ Top.fps_start = Timespec(7, 999999999)
    /\ Top.next_tick = Timespec(8, 666666665)
    /\ now = Timespec(10, 999999999)

\* among the first n runs of the log: the scale_frame calls, the RAMWR commands
RECURSIVE ScalesUpTo(_, _)
ScalesUpTo(runs, n) ==
    IF n = 0 THEN 0
    ELSE ScalesUpTo(runs, n - 1) + (IF runs[n].e.k = "scale" THEN runs[n].n ELSE 0)

RECURSIVE RamwrUpTo(_, _)
RamwrUpTo(runs, n) ==
    IF n = 0 THEN 0
    ELSE RamwrUpTo(runs, n - 1) + (IF runs[n].e = EvLatch(0, 44) THEN runs[n].n ELSE 0)

\* the runs of the log after its last scale_frame
RECURSIVE LastScale(_, _)
LastScale(runs, n) ==
    IF n = 0 \/ runs[n].e.k = "scale" THEN n ELSE LastScale(runs, n - 1)

SinceScale(runs) == SubSeq(runs, LastScale(runs, Len(runs)) + 1, Len(runs))

\* iterations and frames correspond one to one
OneFramePerIteration ==
    OnStack("fb_flush_loop") =>
        LET f == FrameOf("fb_flush_loop")
            flushing == ~Running("fb_flush_loop")
        IN  /\ ScalesUpTo(log, Len(log))
                   = f.frame_count + (IF flushing \/ f.pc \in {256, 258} THEN 1 ELSE 0)
            /\ RamwrUpTo(log, Len(log)) - f.frame_count
                   \in (IF flushing THEN {0, 1} ELSE IF f.pc = 258 THEN {1} ELSE {0})
            /\ \A n \in 1..Len(log) :
                   log[n].e.k = "scale" =>
                       /\ log[n].n = 1
                       /\ log[n].e.v = RamwrUpTo(log, n)
                       /\ log[n].e.v = ScalesUpTo(log, n - 1)
            /\ (Running("fb_flush_loop") /\ f.pc = 258) =>
                   Matches(SinceScale(log),
                           Runs(<<EvCall("ili9481_flush_full")>>
                                \o FlushHeader(f.width, f.height)
                                \o PixelWrites(f.scale_buf, 0, f.width * f.height)))

\* C15: in fb_flush_loop the k-th scale_frame is preceded by exactly k flushes
\* and by k scale_frame calls, and the flush that follows it sends the frame
\* it produced: one conversion then one full-frame flush per iteration, no
\* iteration without them.  A wait whose deadline has already passed returns
\* at once, with the deadline left where it was, behind the clock.
C15_NoFrameDropped ==
    /\ []OneFramePerIteration
    /\ [][(Running("fb_flush_loop") /\ Top.pc = 250 /\ TsLeq(Top.next_tick, now)
              /\ stack' # stack) =>
                 /\ now' = now
                 /\ Head(stack') = [Top EXCEPT !.pc = 253]]_vars

\* at 60 fps three frames of a second and a half each have been flushed: the
\* second and third wait found their deadlines passed
C15_Witness ==
    /\ Running("fb_flush_loop") /\ Top.pc = 258
    /\ Top.fps = 60 /\ Top.frame_count = 2
    /\ Top.fps_start = Timespec(7, 0)
    /\ Top.next_tick = Timespec(7, 33333332)
    /\ now = Timespec(11, 500000000)
    /\ ScalesUpTo(log, Len(log)) = 3 /\ RamwrUpTo(log, Len(log)) = 3

\* C16: fb_flush_loop tests the run flag after the deadline wait and before
\* the conversion, so when the flag has been cleared while the loop was
\* waiting for its deadline, the loop leaves the wait for the exit and not
\* for scale_frame and another flush.
C16_FlagReadAfterWait ==
    [][(Running("fb_flush_loop") /\ Top.pc = 250 /\ g_running = 0 /\ stack' # stack) =>
           Head(stack').pc \notin {253, 256}]_vars

\* between two frames, and at the exit of the loop, the panel has seen since
\* the last scale_frame the whole flush of the buffer it produced
LastFlushComplete ==
    (Running("fb_flush_loop") /\ Top.pc \in {258, 261, 273, 274, 275, 276, 248, 280}
        /\ ScalesUpTo(log, Len(log)) > 0) =>
        /\ Matches(SinceScale(log),
                   Runs(<<EvCall("ili9481_flush_full")>>
                        \o FlushHeader(Top.width, Top.height)
                        \o PixelWrites(Top.scale_buf, 0, Top.width * Top.height)))
        /\ Latches(SinceScale(log)) = 11 + 2 * Top.width * Top.height

\* C18: a step that changes the run flag sets it to 0 and changes nothing
\* else: no pin level, no pending store, nothing seen by the panel, no
\* position of the program.  So, with a signal delivered at any point, every
\* flush that was started has put its complete sequence of commands and its
\* 2 * width * height pixel bytes on the bus when the loop goes on or exits.
C18_SignalOnlyFlag ==
    /\ []LastFlushComplete
    /\ [][g_running' # g_running =>
              /\ g_running' = 0
              /\ UNCHANGED <<lev, stack, cur, sinceDmb, log, handle, now, touch, dev>>]_vars

\* the flag has been cleared by a signal delivered after the loop test that
\* admitted the frame; the flush is inside a pixel write, WR low
C18_Witness ==
    /\ g_running = 0
    /\ Running("bus_write8") /\ Top.pc = 173
    /\ OnStack("gpio_write_pixels") /\ OnStack("fb_flush_loop")

\* when bus_write8(val) is about to raise WR the data pins read val, and every
\* byte the panel has latched during gpio_write_cmd(c) or gpio_write_data(d)
\* is c or d
BusEnginePlaced ==
    /\ (Running("bus_write8") /\ Top.pc = 173) => DecodeBus(lev) = Top.val
    /\ (cur.call.fn = "gpio_write_data") =>
           \A n \in 1..Len(log) : log[n].e.k = "wr" => log[n].e.v = cur.call.data
    /\ (cur.call.fn = "gpio_write_cmd") =>
           \A n \in 1..Len(log) : log[n].e.k = "wr" => log[n].e.v = cur.call.cmd

\* C19: a step of the touch thread changes its own frames, its SPI handle and
\* its uinput device and nothing else: no pin level, no pending store,
\* nothing the panel has seen, no frame of the main thread, not the mapping
\* of the bus and not the run flag.  So, with the touch thread running beside
\* the bus engine and its SPI reads interleaved in every way with the bus
\* writes, at every rising edge of WR the data pins carry the byte the bus
\* engine placed.
C19_TouchLeavesBusAlone ==
    /\ []BusEnginePlaced
    /\ [][(touch' # touch \/ dev' # dev) =>
              UNCHANGED <<lev, stack, cur, sinceDmb, log, handle, g_running>>]_vars

\* bus_write8(0xA5) is about to raise WR, its data-pin stores of lines 169 and
\* 170 done, while the touch thread is between two SPI reads: the transfer of
\* Z1 has returned a pressure and the transfer of Z2 is about to start
C19_Witness ==
    /\ Running("bus_write8") /\ Top.pc = 173 /\ Top.val = 165
    /\ TRunning("spi_read_channel") /\ TTop.pc = 101 /\ TTop.cmd = XPT_CMD_Z2
    /\ touch[2].fn = "read_pressure" /\ touch[2].z1 # 0

\* C20: gpio_bus_open acquires in the order memory, device, mapping and a
\* failing step releases what the earlier steps acquired: when the platform is
\* rejected or calloc fails nothing was acquired; when open fails the memory is
\* freed; when mmap fails the device is closed and the memory freed.  Up to the
\* success of mmap no pin is configured and no register is stored to, and main
\* sees a NULL handle with nothing held.
C20_OpenFailureReleases ==
    /\ Running("gpio_bus_open") =>
           /\ Top.pc \in {182, 183, 185} => handle = Closed
           /\ Top.pc \in {191, 193} => handle = [Closed EXCEPT !.heap = TRUE]
           /\ Top.pc \in {198, 201} => handle = [Closed EXCEPT !.heap = TRUE, !.fd = TRUE]
           /\ Top.pc = 202 => handle = [Closed EXCEPT !.heap = TRUE]
           /\ Top.pc < 207 => (sinceDmb = {} /\ log = <<>> /\ lev \in BootLevels)
    /\ (Running("main") /\ Top.pc = 245 /\ ~Top.bus) =>
           /\ handle = Closed
           /\ sinceDmb = {} /\ log = <<>> /\ lev \in BootLevels

\* gpio_bus_open has returned NULL to main
C20_Witness ==
    /\ Running("main") /\ Top.pc = 245 /\ ~Top.bus
    /\ handle = Closed /\ lev = {}

\* the panel operations called so far, one entry per run of equal calls
IsCall(run) == run.e.k = "call"

CallsIn(runs, n) ==
    LET calls == SelectSeq(SubSeq(runs, 1, n), IsCall)
    IN  [c \in 1..Len(calls) |-> calls[c].e.v]

\* init first, then flushes only, then at most one power_off at the end
PanelOrder(calls) ==
    \A n \in 1..Len(calls) :
        /\ (calls[n] = "ili9481_init") = (n = 1)
        /\ calls[n] = "ili9481_power_off" => n = Len(calls)

\* C13: in every run of the daemon the first panel operation is ili9481_init,
\* ili9481_flush_full only runs after it has returned, nothing is called
\* after ili9481_power_off, and while the registers are not mapped (before
\* gpio_bus_open maps them, after gpio_bus_close unmaps them) no register is
\* stored to.
C13_PanelLifecycle ==
    /\ [](/\ PanelOrder(CallsIn(log, Len(log)))
          /\ OnStack("ili9481_flush_full") =>
                 /\ CallsIn(log, Len(log)) # <<>>
                 /\ ~OnStack("ili9481_init")
                 /\ "ili9481_power_off" \notin
                        {CallsIn(log, Len(log))[n] : n \in 1..Len(CallsIn(log, Len(log)))})
    /\ [][~handle.map => (lev' = lev /\ sinceDmb' = sinceDmb /\ log' = log)]_vars

\* the mirror mode has ended: init, a frame, power_off, and the bus closed
C13_Witness ==
    /\ Returned("main") /\ ~cur.call.cfg.enable_touch
    /\ handle = [Opened EXCEPT !.fd = FALSE, !.heap = FALSE, !.map = FALSE]
    /\ GPIO_CS \in lev
    /\ CallsIn(log, Len(log)) =
           <<"ili9481_init", "ili9481_flush_full", "ili9481_power_off">>

\* the daemon has shut down: main has returned after ili9481_power_off, the
\* touch thread is gone, the registers are unmapped, the device closed, the
\* handle freed
ShutDown ==
    /\ Returned("main")
    /\ touch = NoThread
    /\ ~handle.map /\ ~handle.fd /\ ~handle.heap
    /\ CallsIn(log, Len(log)) # <<>>
    /\ CallsIn(log, Len(log))[Len(CallsIn(log, Len(log)))] = "ili9481_power_off"
    /\ GPIO_CS \in lev

\* the conversions the flush loop still makes if the run flag is 0 from now
\* on: one when it has passed its test and has not converted yet, else none
InHand ==
    IF Running("fb_flush_loop") /\ Top.pc \in {250, 253} THEN 1 ELSE 0

\* C17: once the run flag is 0 the daemon shuts down: fb_flush_loop returns,
\* the touch thread, if one was started, returns and is joined, the panel is
\* powered off and the bus closed; and from the moment the flag is 0 at most
\* one more frame is converted: with the flag 0 a step that converts a frame
\* uses up the one conversion the loop had in hand, and no step gives it one.
C17_Shutdown ==
    /\ (g_running = 0) ~> ShutDown
    /\ [][g_running = 0 =>
              (IF log' # log /\ log'[Len(log')].e.k = "scale" THEN 1 ELSE 0) + InHand'
                  <= InHand]_vars

\* shut down after a signal, with a touch thread that was started and joined
C17_Witness ==
    /\ ShutDown /\ g_running = 0
    /\ cur.call.cfg.enable_touch
    /\ ScalesUpTo(log, Len(log)) = 1

\* ---- C21..C23: opening and closing the bus ----

\* a line of /proc/cpuinfo that names a Pi 5: a Model line with "Pi 5", or a
\* Revision line whose new-style bit 23 is set and whose type field is 0x17
LineNamesPi5(line) ==
    \/ strstr(line, S_Model) /\ strstr(line, S_Pi5)
    \/ /\ strncmp0(line, S_Revision)
       /\ strchr(line, ":") # 0
       /\ LET rev == strtoul16(line, strchr(line, ":") + 1)
          IN  rev \div Pow2(23) % 2 = 1 /\ (rev \div 16) % 256 = 23

NamesPi5(cpuinfo) ==
    \E n \in 1..Len(cpuinfo.v) : LineNamesPi5(cpuinfo.v[n])

Unrecognised(cpuinfo) ==
    \/ ~cpuinfo.fp
    \/ ~\E n \in 1..Len(cpuinfo.v) : strncmp0(cpuinfo.v[n], S_Revision)

\* C21: detect_pi_model returns -1, and gpio_bus_open fails at line 183,
\* exactly when /proc/cpuinfo names a Pi 5 or the model is unrecognised
\* (cpuinfo unreadable or without a Revision line); otherwise it returns 0 and
\* gpio_bus_open goes on to line 185.
C21_DetectPiModel ==
    (Running("gpio_bus_open") /\ Top.pc \in {183, 185}) =>
        /\ (Top.pc = 183) <=> (detect_pi_model(Top.cpuinfo) = -1)
        /\ (Top.pc = 185) <=> (detect_pi_model(Top.cpuinfo) = 0)
        /\ (detect_pi_model(Top.cpuinfo) = -1)
               <=> (NamesPi5(Top.cpuinfo) \/ Unrecognised(Top.cpuinfo))

C23_OpenConfigures ==
    /\ [](/\ Len(OutputPins) = 13
          /\ \A m, n \in 1..Len(OutputPins) :
                 OutputPins[m] = OutputPins[n] => m = n
          /\ (Returned("gpio_bus_open") /\ handle.map) =>
                 /\ \A pin \in BusPins : FselField(handle.fsel, pin) = 1
                 /\ {GPIO_WR, GPIO_DC, GPIO_RD} \subseteq lev
                 /\ GPIO_CS \notin lev)
    /\ [][IF Running("gpio_bus_open") /\ Top.pc = 214 /\ Top.i < Len(OutputPins)
          THEN LET pin == OutputPins[Top.i + 1]
               IN  /\ FselField(handle'.fsel, pin) = 1
                   /\ \A q \in (0..29) \ {pin} :
                          FselField(handle'.fsel, q) = FselField(handle.fsel, q)
                   /\ \A r \in 1..3 :
                          handle'.fsel[r] \div Pow2(30) = handle.fsel[r] \div Pow2(30)
                   /\ Running("gpio_bus_open")' /\ Head(stack').i = Top.i + 1
          ELSE /\ handle'.fsel = handle.fsel
               /\ (Running("gpio_bus_open") /\ stack' # <<>>
                       /\ Head(stack').fn = "gpio_bus_open")
                      => Head(stack').i = Top.i]_vars

\* C23 witness: the bus was opened on a board whose firmware had SPI0 and
\* UART0 enabled; the SPI0 pins 9..11 are now outputs, the UART pins 14 and 15
\* next to them in GPFSEL1 still have their alternate function
C23_Witness ==
    /\ Returned("gpio_bus_open") /\ handle.map
    /\ \A pin \in {GPIO_DB0, GPIO_DB1, GPIO_DB2} :
           FselField(BootFsel, pin) = 4 /\ FselField(handle.fsel, pin) = 1
    /\ FselField(handle.fsel, 14) = 4 /\ FselField(handle.fsel, 15) = 4
    /\ {GPIO_WR, GPIO_DC, GPIO_RD} \subseteq lev /\ GPIO_CS \notin lev

\* ---- C24, C25: scale_frame ----

\* floor(d * s / t)
FloorScale(d, s, t) ==
    CHOOSE q \in 0..(d * s) : q * t <= d * s /\ d * s < (q + 1) * t

\* the destination pixels scale_frame has stored so far, as <<dx, dy>>
Scaled(f) ==
    {<<x, y>> \in (0..(f.fb.tft_width - 1)) \X (0..(f.fb.tft_height - 1)) :
        \/ y < f.dy
        \/ y = f.dy /\ x < f.dx /\ f.pc \in {108, 109, 128, 129}}

\* the 16-bit source pixel at column x of row y
SourcePixel16(fb, x, y) ==
    fb.map[y * fb.src_stride + 2 * x + 1]
        + 256 * fb.map[y * fb.src_stride + 2 * x + 2]

\* C24: with a 16-bpp source every destination pixel (dx, dy) that scale_frame
\* has stored is the source pixel at (floor(dx*src_w/dst_w),
\* floor(dy*src_h/dst_h)), unchanged, and at the return every destination
\* pixel has been stored; for 640 source columns and 320 destination columns
\* column 0 comes from source column 0 and column 319 from 638.
C24_ScaleNearest ==
    /\ ScaleIndex(0, 640, 320) = 0 /\ ScaleIndex(319, 640, 320) = 638
    /\ FloorScale(319, 640, 320) = 638
    /\ (Running("scale_frame") /\ Top.fb.src_bpp = 16) =>
           LET fb == Top.fb
           IN  /\ \A p \in Scaled(Top) :
                      fb.scale_buf[p[2] * fb.tft_width + p[1] + 1]
                          = SourcePixel16(fb,
                                FloorScale(p[1], fb.src_width, fb.tft_width),
                                FloorScale(p[2], fb.src_height, fb.tft_height))
               /\ Top.pc = 113 =>
                      Cardinality(Scaled(Top)) = fb.tft_width * fb.tft_height

\* C24 witness: a 3x2 RGB565 source with padded rows has been scaled to 2x3;
\* the last destination pixel is the source pixel at (1, 1)
C24_Witness ==
    /\ Running("scale_frame") /\ Top.pc = 113 /\ Top.fb.src_bpp = 16
    /\ Top.fb.src_width = 3 /\ Top.fb.src_height = 2 /\ Top.fb.src_stride = 10
    /\ Top.fb.tft_width = 2 /\ Top.fb.tft_height = 3
    /\ Top.fb.scale_buf[6] = SourcePixel16(Top.fb, 1, 1)
    /\ Top.fb.scale_buf[6] # Top.fb.scale_buf[5]

\* the `len`-bit channel at bit `off` of the 32-bit pixel at column x of row y
Channel(fb, x, y, off, len) ==
    LET at == y * fb.src_stride + 4 * x
        lo == fb.map[at + 1] + 256 * fb.map[at + 2]
        hi == fb.map[at + 3] + 256 * fb.map[at + 4]
    IN  IF off >= 16 THEN (hi \div Pow2(off - 16)) % Pow2(len)
        ELSE (((hi % Pow2(15)) * 65536 + lo) \div Pow2(off)) % Pow2(len)

\* a channel of `len` bits rescaled to `to` bits
Rescale(v, len, to) ==
    IF len >= to THEN v \div Pow2(len - to) ELSE v * Pow2(to - len)

\* C25: with a 32-bpp source every destination pixel stored is
\* R<<11 | G<<5 | B, where each channel is taken from the source pixel at its
\* declared offset and length and rescaled to 5, 6 and 5 bits by a right shift
\* when it is wider and a left shift when it is narrower; a red channel of
\* offset 16 and length 8 holding 0xFF becomes 0x1F.
C25_Convert32 ==
    /\ pixel32_to_rgb565(<<0, 0, 255, 0>>, 16, 8, 8, 8, 0, 8) = {31 * 2048}
    /\ (Running("scale_frame") /\ Top.fb.src_bpp = 32) =>
           LET fb == Top.fb
               ch(p, off, len, to) ==
                   Rescale(Channel(fb,
                               FloorScale(p[1], fb.src_width, fb.tft_width),
                               FloorScale(p[2], fb.src_height, fb.tft_height),
                               off, len),
                           len, to)
           IN  /\ \A p \in Scaled(Top) :
                      fb.scale_buf[p[2] * fb.tft_width + p[1] + 1]
                          = ch(p, fb.red_offset, fb.red_length, 5) * 2048
                              + ch(p, fb.green_offset, fb.green_length, 6) * 32
                              + ch(p, fb.blue_offset, fb.blue_length, 5)
               /\ Top.pc = 136 =>
                      Cardinality(Scaled(Top)) = fb.tft_width * fb.tft_height

\* C25 witness: an XRGB8888 frame has been converted; the red byte of its
\* first pixel is 0xFF and the red field of the first destination pixel 0x1F
C25_Witness ==
    /\ Running("scale_frame") /\ Top.pc = 136 /\ Top.fb.src_bpp = 32
    /\ Top.fb.red_offset = 16 /\ Top.fb.red_length = 8
    /\ Top.fb.map[3] = 255
    /\ Top.fb.scale_buf[1] \div 2048 = 31
    /\ Top.fb.tft_width * Top.fb.tft_height > 1

\* ---- C26: an unsupported source depth ----

\* main is in its cleanup after a failed fb_provider_init: mirror mode, the
\* bus open, no provider, and ili9481_power_off never called
ProviderFailed ==
    /\ stack # <<>> /\ stack[Len(stack)].fn = "main"
    /\ stack[Len(stack)].pc \in {321, 323, 326}
    /\ stack[Len(stack)].bus /\ ~stack[Len(stack)].fb
    /\ ~stack[Len(stack)].cfg.benchmark /\ ~stack[Len(stack)].cfg.gpio_probe
    /\ ~stack[Len(stack)].cfg.test_pattern
    /\ \A n \in 1..Len(CallsIn(log, Len(log))) :
           CallsIn(log, Len(log))[n] # "ili9481_power_off"

\* C26 as stated: once fb_provider_init has failed on an unsupported depth the
\* bus that was running stays open and selected for as long as main runs.
C26_BusKeepsRunning ==
    ProviderFailed => (handle.map /\ GPIO_CS \notin lev)

\* C26, amended: fb_provider_init goes on past line 162 only with 16 or 32
\* bits per pixel; with any other depth it has mapped and allocated nothing,
\* closes the source device and returns NULL, and no step of it changes a
\* pin, a register or the bus handle.  The caller does not keep the bus
\* running: main goes straight to its cleanup and, the bus being open, closes
\* it (CS high, registers unmapped, device closed) before it returns.
C26_UnsupportedDepth ==
    /\ [](Running("fb_provider_init") =>
            /\ Top.pc > 166 => Top.bits_per_pixel \in {16, 32}
            /\ Top.pc \in {165, 166} =>
                   /\ Top.bits_per_pixel \notin {16, 32}
                   /\ ~Top.map /\ ~Top.scale_buf /\ ~Top.heap
            /\ Top.pc = 166 => ~Top.fd
            /\ (Top.map \/ Top.scale_buf \/ Top.heap) =>
                   Top.bits_per_pixel \in {16, 32})
    /\ []((Running("main") /\ Top.pc = 326 /\ Top.bus) =>
            (~handle.map /\ ~handle.fd /\ ~handle.heap /\ GPIO_CS \in lev))
    /\ [][/\ Running("fb_provider_init") =>
                UNCHANGED <<lev, sinceDmb, log, handle, g_running, dev>>
          /\ (Running("fb_provider_init") /\ Top.pc = 166) =>
                (Running("main")' /\ Head(stack').pc = 276 /\ ~Head(stack').fb)
          /\ (Running("main") /\ Top.pc = 276 /\ ~Top.fb) =>
                (Running("main")' /\ Head(stack').pc = 321)
          /\ (Running("main") /\ Top.pc = 321 /\ ~Top.fb) =>
                (Running("main")' /\ Head(stack').pc = 323)
          /\ (Running("main") /\ Top.pc = 323 /\ Top.bus) =>
                Running("gpio_bus_close")'
         ]_vars

\* C26 witness: the source has 24 bits per pixel; fb_provider_init has closed
\* it again and is about to return NULL to main, whose bus is open and whose
\* panel is initialised
C26_Witness ==
    /\ Running("fb_provider_init") /\ Top.pc = 166 /\ Top.bits_per_pixel = 24
    /\ ~Top.fd /\ ~Top.map
    /\ Len(stack) = 2 /\ stack[2].fn = "main" /\ stack[2].bus
    /\ handle.map /\ GPIO_CS \notin lev
    /\ CallsIn(log, Len(log)) = <<"ili9481_init">>

\* ---- C27: the pins are distinct ----

ControlPins == {GPIO_RST, GPIO_CS, GPIO_DC, GPIO_WR, GPIO_RD}

\* C27: the eight data pins and the five control pins are thirteen different
\* pins, the set mask and the clear mask of the byte being written hold no
\* control pin, and the two stores that put the byte on the bus leave RST, CS,
\* DC, WR and RD at the level they had.
C27_PinsDistinct ==
    /\ [](/\ \A m, n \in 1..8 : db_pins[m] = db_pins[n] => m = n
          /\ \A n \in 1..8 : db_pins[n] \notin ControlPins
          /\ Cardinality(ControlPins) = 5
          /\ Running("bus_write8") =>
                 /\ lut_set(Top.val) \cap ControlPins = {}
                 /\ lut_clr(Top.val) \cap ControlPins = {})
    /\ [][(Running("bus_write8") /\ Top.pc \in {169, 170}) =>
              lev' \cap ControlPins = lev \cap ControlPins]_vars

\* C27 witness: 0xFF has been put on a bus that held 0; all eight data pins
\* are high now, WR, DC and RD are still high and CS still low
C27_Witness ==
    /\ Running("bus_write8") /\ Top.pc = 171 /\ Top.val = 255
    /\ DecodeBus(lev) = 255 /\ DataPinMask \subseteq lev
    /\ {GPIO_WR, GPIO_DC, GPIO_RD} \subseteq lev /\ GPIO_CS \notin lev
    /\ cur.call.fn = "gpio_write_data"

\* ---- C28: the idle levels ----

BusOperations ==
    {"gpio_write_cmd", "gpio_write_data", "gpio_write_pixels", "gpio_hw_reset",
     "ili9481_init", "ili9481_flush_full", "ili9481_power_off"}

IdleLevels(levels) ==
    /\ GPIO_WR \in levels /\ GPIO_DC \in levels /\ GPIO_RD \in levels
    /\ GPIO_CS \notin levels

\* C28: from the levels gpio_bus_open leaves, whenever a bus operation or a
\* panel operation returns, to the client or to the operation that called it,
\* WR, DC and RD are high and CS is low, whatever operations ran before.
C28_IdleAtReturn ==
    /\ [](Idle => IdleLevels(lev))
    /\ [][(stack # <<>> /\ Top.fn \in BusOperations /\ stack' = Tail(stack))
              => IdleLevels(lev')]_vars

\* C28 witness: a command was written after other operations (the data bus
\* holds the command byte), DC went low and is high again at the return
C28_Witness ==
    /\ Returned("gpio_write_cmd") /\ IdleLevels(lev)
    /\ DecodeBus(lev) = cur.call.cmd
    /\ log = Runs(<<EvEdge("dc", 0), EvLatch(0, cur.call.cmd), EvEdge("dc", 1)>>)


\* the row/column exchange bit MV (bit 5) of an address-mode byte
MV(byte) == (byte \div 32) % 2 = 1

\* the frame of main under the running call
MainFrame == stack[Len(stack)]

\* C29: for every rotation the daemon can be started with, the frame size main
\* took from get_display_size is 480x320 exactly when the address-mode byte
\* ili9481_init leaves on the bus has MV set and 320x480 exactly when it is
\* clear, and this size is the one every ili9481_flush_full is called with.
C29_SizeMatchesExchange ==
    /\ [][(/\ Len(stack) = 2 /\ MainFrame.fn = "main" /\ MainFrame.pc = 254
           /\ stack' = Tail(stack))
              => /\ (MainFrame.disp_w = 480 /\ MainFrame.disp_h = 320)
                        <=> MV(DecodeBus(lev'))
                 /\ (MainFrame.disp_w = 320 /\ MainFrame.disp_h = 480)
                        <=> ~MV(DecodeBus(lev'))]_vars
    /\ []((Running("ili9481_flush_full") /\ MainFrame.fn = "main") =>
              /\ Top.width = MainFrame.disp_w
              /\ Top.height = MainFrame.disp_h)

\* the bits per pixel the panel takes for a COLMOD parameter (ili9481_hw.h:49-50)
ColmodBits(p) ==
    CASE p = ILI9481_COLMOD_12BIT -> 12
      [] p = ILI9481_COLMOD_16BIT -> 16
      [] OTHER                    -> 0

\* C30: the parameter ili9481_init sends after COLMOD selects 16 bits per
\* pixel, the format gpio_write_pixels streams: two 8-bit data writes for
\* each pixel of a frame.
C30_PixelFormat ==
    /\ Returned("ili9481_init") =>
           \A n \in 1..Len(log) :
               log[n].e = EvLatch(0, ILI9481_COLMOD) =>
                   /\ n + 2 <= Len(log)
                   /\ log[n + 2].e.k = "wr" /\ log[n + 2].e.dc = 1
                   /\ ColmodBits(log[n + 2].e.v) = 16
    /\ Returned("ili9481_flush_full") =>
           8 * (Latches(log) - 11) = 16 * cur.call.width * cur.call.height

\* ---- C31: the frame rate ----

\* C31: after config_defaults and any config file and command line, cfg.fps is
\* in 1..60 when config_parse_args returns, and so in fb_flush_loop: the frame
\* interval is 10^9 / fps, not more than a second and not less than a 60th,
\* and the report period fps * 10 is not 0.
C31_FpsInRange ==
    /\ (Returned("config_parse_args") /\ ~cur.call.exited) =>
           cur.call.cfg.fps \in 1..60
    /\ (Running("config_parse_args") /\ Top.pc = 120) => Top.cfg.fps \in 1..60
    /\ Running("fb_flush_loop") =>
           /\ Top.fps \in 1..60
           /\ Top.fps * 10 # 0
           /\ Top.pc # 237 =>
                  /\ Top.frame_ns = NSEC_PER_SEC \div Top.fps
                  /\ Top.frame_ns * Top.fps <= NSEC_PER_SEC
                  /\ Top.frame_ns >= 16666666

\* C31 witness: --config= with a file saying fps=0, then --fps=61 on the
\* command line: config_parse_args has returned 0 with fps clamped to 60
C31_Witness ==
    /\ stack = <<>> /\ cur.call.fn = "config_parse_args" /\ cur.call.ret = 0
    /\ cur.call.file = ConfigFile(<<Kv("fps", <<"0">>)>>)
    /\ cur.call.argv = <<Arg("--config=", <<"c">>), Arg("--fps=", <<"6", "1">>)>>
    /\ cur.call.cfg.fps = 60

\* ---- C32: the cleanup of main ----

\* how often main has called fn at its out: label
RECURSIVE CleanupCount(_, _, _)
CleanupCount(runs, n, fn) ==
    IF n = 0 THEN 0
    ELSE CleanupCount(runs, n - 1, fn)
             + (IF runs[n].e = EvCleanup(fn) THEN runs[n].n ELSE 0)

\* C32: when main returns, gpio_bus_close has been called once if
\* gpio_bus_open gave a bus and never otherwise, fb_provider_destroy once if
\* fb_provider_init gave a provider and never otherwise (never when the open
\* failed), the destroy comes before the close, and after the call of
\* gpio_bus_close the pins see only its own store that raises CS: every bus
\* write comes before it.
C32_CleanupOnce ==
    /\ CleanupCount(log, Len(log), "gpio_bus_close") <= 1
    /\ CleanupCount(log, Len(log), "fb_provider_destroy") <= 1
    /\ (Running("main") /\ Top.pc = 326) =>
           /\ CleanupCount(log, Len(log), "gpio_bus_close") = (IF Top.bus THEN 1 ELSE 0)
           /\ CleanupCount(log, Len(log), "fb_provider_destroy") = (IF Top.fb THEN 1 ELSE 0)
           /\ Top.fb => Top.bus
           /\ Top.bus =>
                  /\ Len(log) >= 2
                  /\ log[Len(log)] = [e |-> EvEdge("cs", 1), n |-> 1]
                  /\ log[Len(log) - 1] = [e |-> EvCleanup("gpio_bus_close"), n |-> 1]
                  /\ ~handle.map /\ ~handle.fd /\ ~handle.heap
           /\ (Top.bus /\ Top.fb) =>
                  log[Len(log) - 2] = [e |-> EvCleanup("fb_provider_destroy"), n |-> 1]
           /\ ~Top.bus => \A n \in 1..Len(log) : log[n].e.k # "wr"
    /\ \A n \in 1..Len(log) :
           log[n].e = EvCleanup("gpio_bus_close") =>
               \A m \in (n + 1)..Len(log) : log[m].e = EvEdge("cs", 1)

\* C32 witness: the mirror mode has ended after a signal: provider destroyed,
\* then the bus closed, main about to return
C32_Witness ==
    /\ Running("main") /\ Top.pc = 326 /\ Top.bus /\ Top.fb
    /\ g_running = 0
    /\ CleanupCount(log, Len(log), "gpio_bus_close") = 1
    /\ CleanupCount(log, Len(log), "fb_provider_destroy") = 1
    /\ "ili9481_power_off" \in {CallsIn(log, Len(log))[n] :
                                    n \in 1..Len(CallsIn(log, Len(log)))}

\* ---- C33: the sampled coordinates ----

\* C33: for source and destination sizes from 1 to 2^16 - 1 and every
\* destination pixel dx < dst_w, dy < dst_h, the products dx * src_w and
\* dy * src_h are below 2^32, the sampled coordinates are the integer parts
\* of dx * src_w / dst_w and dy * src_h / dst_h and lie below src_w and
\* src_h, and the index dy * dst_w + dx written lies below dst_w * dst_h.
C33_SampleInRange ==
    Running("scale_frame_sample") =>
        LET f == Top
        IN  /\ WideMul(f.dx, f.src_width).hi < 65536
            /\ WideMul(f.dy, f.src_height).hi < 65536
            /\ WideLess(WideAdd(WideMul(f.dy, f.tft_width), f.dx),
                        WideMul(f.tft_height, f.tft_width))
            /\ f.pc \in {109, 110} =>
                   /\ f.sy < f.src_height
                   /\ ~WideLess(WideMul(f.dy, f.src_height), WideMul(f.sy, f.tft_height))
                   /\ WideLess(WideMul(f.dy, f.src_height),
                               WideMul(f.sy + 1, f.tft_height))
            /\ f.pc = 110 =>
                   /\ f.sx < f.src_width
                   /\ ~WideLess(WideMul(f.dx, f.src_width), WideMul(f.sx, f.tft_width))
                   /\ WideLess(WideMul(f.dx, f.src_width),
                               WideMul(f.sx + 1, f.tft_width))

\* C33 witness: the last pixel of the largest destination from the largest
\* source: 65534 * 65535 / 65535 = 65534 in both directions
C33_Witness ==
    /\ Running("scale_frame_sample") /\ Top.pc = 110
    /\ Top.src_width = 65535 /\ Top.tft_width = 65535 /\ Top.dx = 65534
    /\ Top.src_height = 65535 /\ Top.tft_height = 65535 /\ Top.dy = 65534
    /\ Top.sx = 65534 /\ Top.sy = 65534
    /\ WideMul(Top.dx, Top.src_width) = [hi |-> 65533, lo |-> 2]
\* ---- C34, C35: the kernel driver ----
\* the first write the panel latches is the n-th run of the log
FirstLatchAt(n) ==
    /\ n \in 1..Len(log)
    /\ log[n].e.k = "wr"
    /\ \A m \in 1..(n - 1) : log[m].e.k # "wr"

\* the runs before the first latch, without the fall of DC that starts the
\* first command when DC was high
BeforeFirstLatch(n) ==
    IF n > 1 /\ log[n - 1].e.k = "dc" THEN SubSeq(log, 1, n - 2) ELSE SubSeq(log, 1, n - 1)

\* reset asserted, held for at least `held` us, released, and `settle` us
\* waited, and nothing else
ResetPulse(runs, held, settle) ==
    /\ Len(runs) = 4
    /\ runs[1].e = EvEdge("rst", 0)
    /\ IsSleep(runs[2], held)
    /\ runs[3].e = EvEdge("rst", 1)
    /\ IsSleep(runs[4], settle)

\* C34: in the kernel driver, when a reset line is present, reset is held
\* asserted for at least 20 ms and at least 120 ms pass after its release
\* before the first init command is written to the panel.
C34_DriverReset ==
    (cur.call.fn = "ili9481_init_display" /\ cur.call.par.rst_gpio) =>
        \A n \in 1..Len(log) :
            FirstLatchAt(n) => ResetPulse(BeforeFirstLatch(n), 20000, 120000)

\* what the driver does: reset is held for at least 20 ms, and the first
\* command, SWRESET, follows its release by at least 20 ms
C34_DriverResetAsBuilt ==
    (cur.call.fn = "ili9481_init_display" /\ cur.call.par.rst_gpio) =>
        \A n \in 1..Len(log) :
            FirstLatchAt(n) =>
                /\ ResetPulse(BeforeFirstLatch(n), 20000, 20000)
                /\ log[n] = [e |-> EvLatch(0, ILI9481_SWRESET), n |-> 1]

\* the pixels of a buffer as one 16-bit data write each, in buffer order
PixelWords(pixels, count) ==
    [n \in 1..count |-> EvLatch(1, PixelAt(pixels, n - 1))]

\* every 16-bit write as two 8-bit writes, the high byte first
HighByteFirst(events) ==
    [n \in 1..(2 * Len(events)) |->
        LET e == events[(n + 1) \div 2]
        IN  EvLatch(e.dc, IF n % 2 = 1 THEN e.v \div 256 ELSE e.v % 256)]

\* C35: for the same width, height and pixel buffer the flush of the kernel
\* driver and ili9481_flush_full of the daemon send the same commands and
\* parameters (CASET and 4 parameters, PASET and 4 parameters, RAMWR) and the
\* same pixels in the same order: the driver one 16-bit write per pixel, the
\* daemon two 8-bit writes per pixel, the high byte first.
C35_SameFrame ==
    /\ Returned("ili9481_flush") =>
           LET w == cur.call.par.width
               h == cur.call.par.height
           IN  log = Runs(FlushHeader(w, h) \o PixelWords(cur.call.vmem, w * h))
    /\ Returned("ili9481_flush_full") =>
           LET w == cur.call.width
               h == cur.call.height
           IN  log = Runs(FlushHeader(w, h)
                          \o HighByteFirst(PixelWords(cur.call.pixels, w * h)))

C35_Witness ==
    /\ Returned("ili9481_flush")
    /\ cur.call.par.width = 2
    /\ cur.call.vmem = Buf(<<43981, 65535>>)
    /\ LastRuns(2) = Runs(<<EvLatch(1, 43981), EvLatch(1, 65535)>>)

\* ---- C36, C37: the SPI mirror ----
\* C36: for an XRGB8888 source (red offset 16, green offset 8, blue offset 0,
\* each 8 bits long) to565 of fbcp.c and pixel32_to_rgb565 of framebuffer.c
\* return the same RGB565 value for every 32-bit pixel.
C36_SameRgb565 ==
    (Returned("fbcp_convert32")
        /\ <<cur.call.ro, cur.call.go, cur.call.bo>> = <<16, 8, 0>>) =>
        {cur.call.v} = pixel32_to_rgb565(cur.call.px, 16, 8, 8, 8, 0, 8)

\* what to565 does for XRGB8888: the green field is that of
\* pixel32_to_rgb565, the red field has bits 30 and 31 of the pixel in its
\* two low bits, and the blue field is 0 or bits 24..28 of the pixel
C36_GreenOnly ==
    (Returned("fbcp_convert32")
        /\ <<cur.call.ro, cur.call.go, cur.call.bo>> = <<16, 8, 0>>) =>
        LET px == cur.call.px
            v  == cur.call.v
        IN  /\ \A p \in pixel32_to_rgb565(px, 16, 8, 8, 8, 0, 8) :
                   (v \div 32) % 64 = (p \div 32) % 64
            /\ v \div 2048 = px[4] \div 64
            /\ v % 32 \in {0, px[4] % 32}

\* a command byte on the wire: 0x00 and the byte, DC low
SpiCmd(c) == <<EvSpi(0, 0), EvSpi(0, c)>>

\* parameter bytes on the wire: 0x00 and the byte for each, DC high
SpiParams(d) ==
    [b \in 1..(2 * Len(d)) |-> EvSpi(1, IF b % 2 = 1 THEN 0 ELSE d[b \div 2])]

\* the full-screen window of lcd_set_window(0, 0, 479, 319)
SpiWindow ==
    SpiCmd(42) \o SpiParams(<<0, 0, 1, 223>>) \o SpiCmd(43) \o SpiParams(<<0, 0, 1, 63>>)

\* C37: the SPI mirror sends every command byte c as 0x00, c with DC low and
\* every parameter byte p as 0x00, p with DC high, in order, none lost and
\* none twice, for any parameter count (batches of up to 64); the pixel data
\* after RAMWR goes out raw, two bytes per pixel without padding, DC high.
C37_SpiFraming ==
    /\ Returned("lcd_cmd") => log = Runs(SpiCmd(cur.call.c))
    /\ Returned("lcd_data16") => log = Runs(SpiParams(cur.call.d))
    /\ Returned("lcd_d8") => log = Runs(SpiParams(<<cur.call.v>>))
    /\ Returned("lcd_push") =>
           log = Runs(SpiWindow \o SpiCmd(44)
                      \o [b \in 1..(2 * cur.call.npx) |->
                             EvSpi(1, ByteOf(cur.call.buf, b - 1))])
    /\ Returned("lcd_fill") =>
           log = Runs(SpiWindow \o SpiCmd(44)
                      \o [b \in 1..(2 * DISPLAY_W * DISPLAY_H) |->
                             EvSpi(1, IF b % 2 = 1 THEN cur.call.color \div 256
                                      ELSE cur.call.color % 256)])

C37_Witness ==
    /\ Returned("lcd_data16")
    /\ cur.call.n = 129
    /\ Len(log) = 258
    /\ log[258].e = EvSpi(1, Params(129)[129])

\* ---- C38: the uinput device ----
IsBtnTouch(run) == run.e.k = "input" /\ run.e.c = "BTN_TOUCH"

\* the BTN_TOUCH events of the log, in order
BtnTouch == SelectSeq(dev.io, IsBtnTouch)

\* the events of a report that sends something
ReportEvents(was_down, down, x, y) ==
    IF down # 0
    THEN <<EvInput("EV_ABS", "ABS_X", x), EvInput("EV_ABS", "ABS_Y", y),
           EvInput("EV_ABS", "ABS_PRESSURE", 200)>>
         \o (IF was_down = 0 THEN <<EvInput("EV_KEY", "BTN_TOUCH", 1)>> ELSE <<>>)
         \o <<EvInput("EV_SYN", "SYN_REPORT", 0)>>
    ELSE <<EvInput("EV_ABS", "ABS_PRESSURE", 0), EvInput("EV_KEY", "BTN_TOUCH", 0),
           EvInput("EV_SYN", "SYN_REPORT", 0)>>

\* the release that uinput_touch_destroy sends when the pen is down
ReleaseEvents(was_down) ==
    IF was_down # 0
    THEN <<EvInput("EV_ABS", "ABS_PRESSURE", 0), EvInput("EV_KEY", "BTN_TOUCH", 0),
           EvInput("EV_SYN", "SYN_REPORT", 0)>>
    ELSE <<>>

\* the BTN_TOUCH values are 1, 0, 1, 0, ..., each sent once
Alternates ==
    \A n \in 1..Len(BtnTouch) : BtnTouch[n].n = 1 /\ BtnTouch[n].e.v = n % 2

\* a report with down = 0 and the pen up sends nothing; every other report
\* sends its events and one SYN_REPORT as the last of them
ReportSends ==
    (DevReturned("uinput_touch_report") /\ cur.call.ut) =>
        IF cur.call.down = 0 /\ cur.ut0.was_down = 0
        THEN dev.io = cur.log0
        ELSE dev.io = Record(cur.log0,
                          ReportEvents(cur.ut0.was_down, cur.call.down,
                                       cur.call.x, cur.call.y))

\* the release comes before the device is destroyed, and nothing after it
DestroyReleases ==
    (DevReturned("uinput_touch_destroy") /\ cur.call.ut) =>
        /\ dev.io = Record(cur.log0, ReleaseEvents(cur.ut0.was_down)
                                  \o <<EvInput("ioctl", "UI_DEV_DESTROY", 0)>>)
        /\ Len(BtnTouch) % 2 = 0

PenDown == BtnTouch # <<>> /\ BtnTouch[Len(BtnTouch)].e.v = 1
PenUp   == BtnTouch = <<>> \/ BtnTouch[Len(BtnTouch)].e.v = 0

\* C38: over any sequence of uinput_touch_report calls followed by
\* uinput_touch_destroy the BTN_TOUCH values sent alternate 1, 0, 1, 0, ...
\* starting with 1; a report with down = 0 while the pen is up sends nothing;
\* every other report ends with exactly one SYN_REPORT; if the pen is down at
\* destroy, BTN_TOUCH 0 and SYN_REPORT are sent before the device is
\* destroyed; so every press is released in the end.
C38_PressRelease ==
    /\ [](Alternates /\ ReportSends /\ DestroyReleases)
    /\ (PenDown ~> PenUp)

C38_Witness ==
    /\ DevReturned("uinput_touch_destroy")
    /\ cur.ut0.was_down = 1
    /\ Len(BtnTouch) = 4
    /\ SubSeq(dev.io, Len(dev.io) - 3, Len(dev.io))
           = Runs(ReleaseEvents(1) \o <<EvInput("ioctl", "UI_DEV_DESTROY", 0)>>)

\* ---- C39: the touch controller ----
IsRead(run) == run.e.k = "read"

\* the reads of the device so far, in order
Reads == SelectSeq(dev.io, IsRead)

\* a run of reads that returned 1 follows at least four reads in a row that
\* returned 0 with the pressure at or above the threshold
DebouncedAndSettled ==
    \A n \in 1..Len(Reads) :
        Reads[n].e.v = 1 =>
            /\ Reads[n].e.ok
            /\ n > 1
            /\ Reads[n - 1].e = EvRead(TRUE, 0)
            /\ Reads[n - 1].n >= DEBOUNCE_COUNT + SETTLE_READS

\* a read that measured a pressure below the threshold returned 0 and left
\* both counts at zero
PenUpResets ==
    (DevReturned("xpt2046_read") /\ cur.call.ts /\ ~dev.io[Len(dev.io)].e.ok) =>
        /\ dev.io[Len(dev.io)].e.v = 0
        /\ dev.ts.pen_down_count = 0
        /\ dev.ts.sample_count = 0

\* C39: after a read that saw the pen up, xpt2046_read returns 1 no earlier
\* than the 5th read in a row whose pressure is at or above PRESSURE_MIN (the
\* debounce and settling reads before it return 0); a read whose pressure is
\* below the threshold, before or after the sampling, returns 0 and sets the
\* consecutive-read count and the filter sample count to zero.
C39_Debounce == DebouncedAndSettled /\ PenUpResets

\* a pen-up read, four reads that return 0, the fifth returns 1, and a read
\* whose second pressure is low resets the device
C39_Witness ==
    /\ DevReturned("xpt2046_read")
    /\ cur.ts0.pen_down_count = 5 /\ cur.ts0.sample_count = 1
    /\ dev.io = <<[e |-> EvRead(FALSE, 0), n |-> 1], [e |-> EvRead(TRUE, 0), n |-> 4],
               [e |-> EvRead(TRUE, 1), n |-> 1], [e |-> EvRead(FALSE, 0), n |-> 1]>>
    /\ dev.ts.pen_down_count = 0

-----------------------------------------------------------------------------
(* State after a successful gpio_bus_open: all 13 pins are outputs; WR, DC *)
(* and RD were driven high and CS low; RST and the data pins keep whatever *)
(* level they had.                                                         *)

OpenLevels ==
    {(wr_mask \cup dc_mask \cup rd_mask) \cup r \cup d :
        r \in {{}, rst_mask}, d \in {{}, DataPinMask, lut_set(165)}}

\* the two stores of lines 230..231, which no barrier follows
OpenStores ==
    {[mask |-> wr_mask \cup dc_mask \cup rd_mask, reg |-> "GPSET0"],
     [mask |-> cs_mask, reg |-> "GPCLR0"]}

Init ==
    /\ lev \in OpenLevels
    /\ stack = <<>>
    /\ cur = [call |-> [fn |-> "none"], rst0 |-> Level(lev, GPIO_RST)]
    /\ sinceDmb = OpenStores
    /\ log = <<>>
    /\ handle = Opened
    /\ g_running = 1
    /\ now = Epoch
    /\ touch = NoThread
    /\ dev = Devices

\* the daemon with the bus opened and the panel initialised for one of the
\* four rotations
Initialised ==
    /\ lev \in InitialisedLevels
    /\ stack = <<>>
    /\ cur = [call |-> [fn |-> "none"], rst0 |-> 1]
    /\ sinceDmb = InitialisedStores
    /\ log = <<>>
    /\ handle = Opened
    /\ g_running = 1
    /\ now = Epoch
    /\ touch = NoThread
    /\ dev = Devices

\* the same with the default rotation of config_defaults
InitialisedDefault ==
    /\ Initialised
    /\ lev = wr_mask \cup dc_mask \cup rd_mask \cup rst_mask
                 \cup lut_set(ili9481_madctl_for_rotate(config_defaults.rotation))

\* the bus primitives
NextBus ==
    \/ CallWriteCmd
    \/ CallWriteData
    \/ CallWritePixels
    \/ CallHwReset
    \/ bus_write8
    \/ gpio_hw_reset
    \/ gpio_write_cmd
    \/ gpio_write_data
    \/ gpio_write_pixels

SpecBus == Init /\ [][NextBus]_vars

\* gpio_write_data over every byte value and every prior data-bus value
NextLut ==
    \/ CallWriteAnyByte
    \/ gpio_write_data
    \/ bus_write8

SpecLut == Init /\ [][NextLut]_vars

\* the panel controller driver
NextPanel ==
    \/ CallInit
    \/ CallFlushFull
    \/ CallPowerOff
    \/ ili9481_init
    \/ ili9481_flush_full
    \/ ili9481_power_off
    \/ gpio_hw_reset
    \/ gpio_write_cmd
    \/ gpio_write_data
    \/ gpio_write_pixels
    \/ bus_write8

SpecPanel == Init /\ [][NextPanel]_vars

\* full-frame flushes of a panel that ili9481_init has initialised
InitFlush == Initialised

NextFlush ==
    \/ CallFlushFrame
    \/ ili9481_flush_full
    \/ gpio_write_cmd
    \/ gpio_write_data
    \/ gpio_write_pixels
    \/ bus_write8

SpecFlush == InitFlush /\ [][NextFlush]_vars

\* fb_flush_loop, with a signal arriving at any moment
InitLoop == Initialised

NextLoop ==
    \/ CallFlushLoop
    \/ signal_handler
    \/ fb_flush_loop
    \/ ili9481_flush_full
    \/ gpio_write_cmd
    \/ gpio_write_data
    \/ gpio_write_pixels
    \/ bus_write8

SpecLoop == InitLoop /\ [][NextLoop]_vars

\* bus writes with the touch thread running beside them: main at line 296,
\* the panel initialised for cfg.rotation and the thread given the disp_w and
\* disp_h that get_display_size (lines 62..75) computed from it at line 241
InitTouch ==
    /\ \E rotate \in {0, 90, 180, 270} :
           /\ lev = wr_mask \cup dc_mask \cup rd_mask \cup rst_mask
                        \cup lut_set(ili9481_madctl_for_rotate(rotate))
           /\ touch = IF rotate \in {90, 270}
                          THEN <<F_touch_thread_fn(ILI9481_HEIGHT, ILI9481_WIDTH)>>
                          ELSE <<F_touch_thread_fn(ILI9481_WIDTH, ILI9481_HEIGHT)>>
    /\ stack = <<>>
    /\ cur = [call |-> [fn |-> "none"], rst0 |-> 1]
    /\ sinceDmb = InitialisedStores
    /\ log = <<>>
    /\ handle = Opened
    /\ g_running = 1
    /\ now = Epoch
    /\ dev = NoDevices

NextTouch ==
    \/ CallWriteData
    \/ CallWriteCmd
    \/ gpio_write_data
    \/ gpio_write_cmd
    \/ bus_write8
    \/ PollsLeft /\ TouchThread
    \/ signal_handler

SpecTouch == InitTouch /\ [][NextTouch]_vars

\* the daemon from the start of main
InitMain ==
    /\ lev \in BootLevels
    /\ stack = <<>>
    /\ cur = [call |-> [fn |-> "none"], rst0 |-> Level(lev, GPIO_RST)]
    /\ sinceDmb = {}
    /\ log = <<>>
    /\ handle = Closed
    /\ g_running = 1
    /\ now = Epoch
    /\ touch = NoThread
    /\ dev = NoDevices

\* the touch thread as it is followed beside the main thread: MaxPolls
\* iterations of its loop, with the pen up
BesideMain == PollsLeft /\ TouchThread /\ PenStaysUp'

\* the statements of the main thread
MainThread ==
    \/ main
    \/ gpio_bus_open
    \/ gpio_bus_close
    \/ gpio_bus_probe
    \/ FlushesFollowed /\ run_benchmark
    \/ run_benchmark_between
    \/ run_test_pattern
    \/ fb_provider_init
    \/ fb_flush_loop /\ LoopFollowed'
    \/ ili9481_init
    \/ ili9481_flush_full
    \/ ili9481_power_off
    \/ gpio_hw_reset
    \/ gpio_write_cmd
    \/ gpio_write_data
    \/ PixelsFollowed /\ gpio_write_pixels
    \/ gpio_write_pixels_between
    \/ bus_write8

NextMain ==
    \/ CallMain
    \/ MainThread
    \/ BesideMain
    \/ signal_handler

SpecMain == InitMain /\ [][NextMain]_vars

\* both threads are scheduled as long as they can run
SpecMainFair ==
    SpecMain /\ WF_vars(MainThread) /\ WF_vars(BesideMain)

\* a client of gpio_mmio.h: it opens the bus, writes to it, closes it, and may
\* pass NULL to gpio_bus_close at any time
InitOpen ==
    /\ lev \in BootLevels
    /\ stack = <<>>
    /\ cur = [call |-> [fn |-> "none"], rst0 |-> Level(lev, GPIO_RST)]
    /\ sinceDmb = {}
    /\ log = <<>>
    /\ handle \in {[Closed EXCEPT !.fsel = regs] : regs \in BootFsels}
    /\ g_running = 1
    /\ now = Epoch
    /\ touch = NoThread
    /\ dev = Devices

CallOpen == ~handle.heap /\ Enter(F_gpio_bus_open)

CallClose ==
    \E bus \in BOOLEAN : (bus => handle.map) /\ Enter(F_gpio_bus_close(bus))

NextOpen ==
    \/ CallOpen
    \/ CallClose
    \/ handle.map /\ CallWriteData
    \/ handle.map /\ CallWriteCmd
    \/ gpio_bus_open
    \/ gpio_bus_close
    \/ gpio_write_data
    \/ gpio_write_cmd
    \/ bus_write8

SpecOpen == InitOpen /\ [][NextOpen]_vars

\* scale_frame on its own, called once
InitScale == InitialisedDefault

NextScale ==
    \/ CallScaleFrame
    \/ scale_frame

SpecScale == InitScale /\ [][NextScale]_vars

\* the start of the daemon: the configuration is parsed with the bus not yet
\* opened, then the flush loop runs with the frame rate it gave
InitConfig == InitMain

NextConfig ==
    \/ CallParseArgs
    \/ config_parse_args
    \/ CallFlushLoopCfg
    \/ fb_flush_loop
    \/ ili9481_flush_full
    \/ gpio_write_cmd
    \/ gpio_write_data
    \/ gpio_write_pixels
    \/ bus_write8
    \/ signal_handler

SpecConfig == InitConfig /\ [][NextConfig]_vars

\* one destination pixel of scale_frame between frames of any size
NextSample ==
    \/ CallSample
    \/ scale_frame_sample

SpecSample == InitScale /\ [][NextSample]_vars

\* the kernel driver after probe has requested its lines, or the daemon after
\* it has opened the bus and initialised the panel
InitDriver ==
    /\ lev \in {ProbedLevels} \cup InitialisedLevels
    /\ stack = <<>>
    /\ cur = [call |-> [fn |-> "none"], rst0 |-> Level(lev, GPIO_RST)]
    /\ sinceDmb = IF lev = ProbedLevels THEN {} ELSE InitialisedStores
    /\ log = <<>>
    /\ handle = Opened
    /\ g_running = 1
    /\ now = Epoch
    /\ touch = NoThread
    /\ dev = Devices

NextDriver ==
    \/ CallInitDisplay
    \/ CallFlush
    \/ CallRemove
    \/ ili9481_init_display
    \/ ili9481_hw_reset
    \/ ili9481_flush
    \/ ili9481_remove
    \/ ili9481_write_cmd
    \/ ili9481_write_data
    \/ ili9481_write_pixel
    \/ ili9481_write16
    \/ CallFlushFullDaemon
    \/ ili9481_flush_full
    \/ gpio_write_cmd
    \/ gpio_write_data
    \/ gpio_write_pixels
    \/ bus_write8

SpecDriver == InitDriver /\ [][NextDriver]_vars

\* the SPI mirror
NextMirror ==
    \/ CallConvert32
    \/ fbcp_convert32
    \/ CallLcdCmd
    \/ CallLcdData16
    \/ CallLcdD8
    \/ CallLcdFill
    \/ CallLcdPush
    \/ lcd_cmd
    \/ lcd_data16
    \/ lcd_d8
    \/ lcd_set_window
    \/ lcd_fill
    \/ lcd_push

SpecMirror == InitScale /\ [][NextMirror]_vars

\* the uinput device from its creation to its destruction
NextUinput ==
    \/ CallReport
    \/ CallReportNull
    \/ CallDestroy
    \/ uinput_touch_report
    \/ uinput_touch_destroy

SpecUinput == InitScale /\ [][NextUinput]_vars

\* a call that has begun runs to its end, and the owner of the device
\* destroys it in the end
SpecUinputFair ==
    /\ SpecUinput
    /\ WF_vars(uinput_touch_report)
    /\ WF_vars(uinput_touch_destroy)
    /\ SF_vars(CallDestroy)

\* the touch controller polled again and again
NextXpt ==
    \/ CallRead
    \/ xpt2046_read
    \/ read_pressure
    \/ spi_read_channel

SpecXpt == InitScale /\ [][NextXpt]_vars

Next == NextBus \/ NextPanel

Spec == Init /\ [][Next]_vars

=============================================================================
